---- MODULE Spec2Model ----
(***************************************************************************)
(* Ride-Share application: the Users service (main_user.py) and the Rides   *)
(* service (main_rides.py).  One process runs one of the two services; the  *)
(* database and, for the Rides service, the Users service are external      *)
(* collaborators whose replies are chosen nondeterministically.             *)
(*                                                                          *)
(* The production server is gevent's WSGIServer: a request runs without     *)
(* interruption until it blocks in an outbound HTTP call, so a handler is   *)
(* split into one step per external call.  Text is a sequence of            *)
(* one-character strings.                                                   *)
(***************************************************************************)
EXTENDS Integers, Sequences, FiniteSets, TLC

VARIABLES
    service,               \* which of the two programs this process runs
    http_request_counter,  \* the module global of main_user.py / main_rides.py
    metrics,               \* the ServiceMetrics instance
    inflight,              \* per worker: where its request is, and its calls so far
    resp,                  \* the response a handler has just returned, if any
    previous,              \* the request answered last: its handler and ride id
    argument,              \* a library function called on its own: function and value
    returned,              \* what that call returned or raised
    database,              \* the usernames the external database holds
    answered               \* how many requests have been answered by concurrent greenlets

vars ==
    <<service, http_request_counter, metrics, inflight, resp, previous, argument, returned,
      database, answered>>

\* ------------------------------------------------------------------ bounds
\* Arrivals stop once a counter of the process has reached MaxCount.
MaxCount == 2

\* The greenlets handling requests.  Requests are served one after another
\* here: a handler reads nothing another request writes except the counters.
Workers == {"w1"}

\* The longest text, over ArgumentChars, a library function is called with
\* (next to the texts at its length limits).
MaxArgLen == 2

\* ------------------------------------------------------- program constants
PASSWORD_LEN == 40
MAX_USERNAME_LEN == 50
MIN_SOURCE_DESTINATION == 1
MAX_SOURCE_DESTINATION == 198

\* -------------------------------------------------------------------- text
HexChars == {"0", "1", "2", "3", "4", "5", "6", "7", "8", "9",
             "a", "b", "c", "d", "e", "f", "A", "B", "C", "D", "E", "F"}
Digits == {"0", "1", "2", "3", "4", "5", "6", "7", "8", "9"}
Letters ==
    {"a", "b", "c", "d", "e", "f", "g", "h", "i", "j", "k", "l", "m",
     "n", "o", "p", "q", "r", "s", "t", "u", "v", "w", "x", "y", "z",
     "A", "B", "C", "D", "E", "F", "G", "H", "I", "J", "K", "L", "M",
     "N", "O", "P", "Q", "R", "S", "T", "U", "V", "W", "X", "Y", "Z"}
WordChars == Letters \cup Digits \cup {"_"}
Whitespace == {" ", "\n", "\t"}

AllIn(s, chars) == \A i \in 1..Len(s) : s[i] \in chars

\* str.strip()
RECURSIVE LStrip(_)
LStrip(s) == IF s # <<>> /\ Head(s) \in Whitespace THEN LStrip(Tail(s)) ELSE s
RECURSIVE RStrip(_)
RStrip(s) ==
    IF s # <<>> /\ s[Len(s)] \in Whitespace THEN RStrip(SubSeq(s, 1, Len(s) - 1)) ELSE s
Strip(s) == RStrip(LStrip(s))

\* a in b, for two str values
IsSubstring(a, b) ==
    \E i \in 0..Len(b) : i + Len(a) <= Len(b) /\ SubSeq(b, i + 1, i + Len(a)) = a

\* ----------------------------------------------------------- JSON values
JAbsent == [t |-> "absent", s |-> <<>>, n |-> 0]
JNull == [t |-> "null", s |-> <<>>, n |-> 0]
JStr(s) == [t |-> "str", s |-> s, n |-> 0]
JNum(n) == [t |-> "num", s |-> <<>>, n |-> n]

FieldNames == {"username", "password", "created_by", "source", "destination", "timestamp"}
NoFields == [k \in FieldNames |-> JAbsent]

\* A request body as request.get_json() sees it.
JObject(fields) == [kind |-> "obj", fields |-> fields, items |-> <<>>, n |-> 0]
JArray(items) == [kind |-> "arr", fields |-> NoFields, items |-> items, n |-> 0]
JNumber(n) == [kind |-> "num", fields |-> NoFields, items |-> <<>>, n |-> n]
JNullBody == [kind |-> "null", fields |-> NoFields, items |-> <<>>, n |-> 0]
Malformed == [kind |-> "malformed", fields |-> NoFields, items |-> <<>>, n |-> 0]

\* Python truthiness of a parsed body: `not body`
Falsy(body) ==
    \/ body.kind = "null"
    \/ body.kind = "obj" /\ \A k \in FieldNames : body.fields[k].t = "absent"
    \/ body.kind = "arr" /\ body.items = <<>>
    \/ body.kind = "num" /\ body.n = 0

\* `key in body`: "yes", "no", or "TypeError" (an int is not iterable)
Contains(body, key) ==
    CASE body.kind = "obj" -> IF body.fields[key].t # "absent" THEN "yes" ELSE "no"
      [] body.kind = "arr" ->
            IF \E i \in 1..Len(body.items) : body.items[i] = key THEN "yes" ELSE "no"
      [] OTHER -> "TypeError"

\* `body[key]` once `key in body` held: a value, or TypeError for a list
CanGetItem(body) == body.kind = "obj"

\* ------------------------------------------------------------- exceptions
\* An exception: its class and the text str(e) gives, as the format string of
\* the source and the value interpolated into it.
NoArg == JAbsent
Exc(type, fmt, arg) == [type |-> type, fmt |-> fmt, arg |-> arg]

\* str(e): werkzeug's HTTPException prints "<code> <name>: <description>"
StrPrefix(type) ==
    CASE type = "BadRequest" -> "400 Bad Request: "
      [] type = "NotFound" -> "404 Not Found: "
      [] type = "InternalServerError" -> "500 Internal Server Error: "
      [] OTHER -> ""
StrOf(e) == [prefix |-> StrPrefix(e.type), fmt |-> e.fmt, arg |-> e.arg]

NoMsg == [prefix |-> "", fmt |-> "", arg |-> NoArg]
Text(fmt) == [prefix |-> "", fmt |-> fmt, arg |-> NoArg]
InternalServerErrorMsg == Text("Internal server error")

\* ------------------------------------------------ replies of collaborators
\* response.json(): parseable or not, and the parsed value
UnparseableJson == [ok |-> FALSE, t |-> "null", items |-> <<>>, n |-> 0]
JsonList(items) == [ok |-> TRUE, t |-> "list", items |-> items, n |-> 0]
JsonNumber(n) == [ok |-> TRUE, t |-> "num", items |-> <<>>, n |-> n]
JsonObj(nkeys) == [ok |-> TRUE, t |-> "obj", items |-> <<>>, n |-> nkeys]
JsonNull == [ok |-> TRUE, t |-> "null", items |-> <<>>, n |-> 0]

\* `not value` for a parsed reply
\* `if rides is None` in place of `if not rides`
JsonFalsy_NoneOnly(j) == j.t = "null"

JsonFalsy(j) ==
    \/ j.t = "null"
    \/ j.t = "list" /\ j.items = <<>>
    \/ j.t = "obj" /\ j.n = 0
    \/ j.t = "num" /\ j.n = 0
\* len(value) raises TypeError for a number
JsonHasLen(j) == j.t \in {"list", "obj"}

Pending == [state |-> "pending", status |-> 0, json |-> UnparseableJson, text |-> <<>>]
\* requests raised (timeout, connection failure)
RequestException == [state |-> "raised", status |-> 0, json |-> UnparseableJson, text |-> <<>>]
HttpReply(status, json, text) == [state |-> "replied", status |-> status, json |-> json, text |-> text]

\* what the database answers a call whose handler reads response.json()
DbReplies ==
    { HttpReply(200, j, <<>>) :
        j \in {JsonList(<<>>), JsonList(<<"r1">>), JsonObj(4), JsonNumber(3), UnparseableJson} }
    \cup { HttpReply(404, UnparseableJson, <<>>), HttpReply(500, UnparseableJson, <<>>),
           RequestException }

\* what the database answers a call whose handler reads the status only
DbStatusReplies ==
    { HttpReply(200, JsonObj(1), <<>>), HttpReply(404, UnparseableJson, <<>>),
      HttpReply(500, UnparseableJson, <<>>), RequestException }

\* ---------------------------------------------------------- external calls
Call(target, action) ==
    [target |-> target, action |-> action, username |-> JAbsent, password |-> JAbsent,
     ride_id |-> 0, source |-> JAbsent, destination |-> JAbsent, timestamp |-> <<>>,
     reply |-> Pending]

\* the reply of the call a blocked request is waiting for
WithReply(calls, r) == [calls EXCEPT ![Len(calls)].reply = r]
LastReply(calls) == calls[Len(calls)].reply

\* --------------------------------------------------------------- requests
ContentTypes == {"application/json", "application/ld+json", "text/plain"}

\* flask's request.is_json: application/json or application/*+json
is_json(ctype) == ctype \in {"application/json", "application/ld+json"}

QNone == [present |-> FALSE, s |-> <<>>]
QArg(s) == [present |-> TRUE, s |-> s]

Request(handler, method) ==
    [handler |-> handler, method |-> method, ctype |-> "none", body |-> JNullBody,
     username |-> <<>>, ride_id |-> 0, source |-> QNone, destination |-> QNone]

NoRequest == Request("none", "none")

\* ------------------------------------------------------------- responses
NoData == [k |-> "none", n |-> 0, json |-> UnparseableJson]
CountData(n) == [k |-> "count_list", n |-> n, json |-> UnparseableJson]
StaticData(name) == [k |-> name, n |-> 0, json |-> UnparseableJson]
\* data=response.json(): None is left out of the envelope
JsonData(j) == IF j.t = "null" THEN NoData ELSE [k |-> "json", n |-> 0, json |-> j]

\* error_code=None, details=None: no caller of create_error_response passes
\* them, so the envelope carries neither a code nor a details field
NoErrorCode == "absent"
NoDetails == "absent"

Response(req, calls, status, envelope, data, message, before) ==
    [req |-> req, calls |-> calls, status |-> status, envelope |-> envelope,
     data |-> data, message |-> message, code |-> NoErrorCode, details |-> NoDetails,
     before |-> before]

NoResp ==
    Response(NoRequest, <<>>, 0, "none", NoData, NoMsg,
             [http_request_counter |-> 0,
              metrics |-> [total_requests |-> 0, successful_requests |-> 0,
                           failed_requests |-> 0],
              previous |-> [handler |-> "none", ride_id |-> 0]])

\* What a response is returned after: the counters as they were before the
\* step that returns it, and the handler of the request answered before it.
Before ==
    [http_request_counter |-> http_request_counter, metrics |-> metrics,
     previous |-> previous]

\* response_helpers.create_response: data when not None, message when truthy
create_response(req, calls, data, message, status_code) ==
    Response(req, calls, status_code, "success", data, message, Before)

\* response_helpers.create_error_response: {error: {message, status_code}}
create_error_response(req, calls, message, status_code) ==
    Response(req, calls, status_code, "error", NoData, message, Before)

\* -------------------------------------------------------------- validators
\* re: ^[a-fA-F0-9]{40}$ ; `$` also matches before one trailing newline
MatchesSha1(s) ==
    \/ Len(s) = PASSWORD_LEN /\ AllIn(s, HexChars)
    \/ /\ Len(s) = PASSWORD_LEN + 1
       /\ AllIn(SubSeq(s, 1, PASSWORD_LEN), HexChars)
       /\ s[PASSWORD_LEN + 1] = "\n"

\* re: ^[a-zA-Z0-9_]+$
MatchesWord(s) ==
    \/ Len(s) >= 1 /\ AllIn(s, WordChars)
    \/ Len(s) >= 2 /\ AllIn(SubSeq(s, 1, Len(s) - 1), WordChars) /\ s[Len(s)] = "\n"

Ok(value) == [ok |-> TRUE, value |-> value, exc |-> Exc("none", "", NoArg)]
Raise(e) == [ok |-> FALSE, value |-> JAbsent, exc |-> e]

\* Users/utils/validators.validate_username (a JSON value in, a str out)
validate_username(v) ==
    IF v.t \in {"absent", "null"} \/ (v.t = "str" /\ v.s = <<>>) \/ (v.t = "num" /\ v.n = 0)
    THEN Raise(Exc("ValidationError", "Username is required", NoArg))
    ELSE IF v.t # "str"
    THEN Raise(Exc("ValidationError", "Username must be a string", NoArg))
    ELSE IF Len(Strip(v.s)) = 0
    THEN Raise(Exc("ValidationError", "Username cannot be empty", NoArg))
    ELSE IF Len(v.s) > MAX_USERNAME_LEN
    THEN Raise(Exc("ValidationError", "Username too long (max 50 characters)", NoArg))
    ELSE IF ~MatchesWord(v.s)
    THEN Raise(Exc("ValidationError",
                   "Username can only contain letters, numbers, and underscores", NoArg))
    ELSE Ok(JStr(Strip(v.s)))

\* Users/utils/validators.validate_password
validate_password(v) ==
    IF v.t \in {"absent", "null"} \/ (v.t = "str" /\ v.s = <<>>) \/ (v.t = "num" /\ v.n = 0)
    THEN Raise(Exc("ValidationError", "Password is required", NoArg))
    ELSE IF v.t # "str"
    THEN Raise(Exc("ValidationError", "Password must be a string", NoArg))
    ELSE IF ~MatchesSha1(v.s)
    THEN Raise(Exc("ValidationError",
                   "Password must be a valid SHA1 hash (40 hexadecimal characters)", NoArg))
    ELSE Ok(v)

\* user_requests.CreateUserRequests.validatePassword: sha1_re.search(password)
validatePassword(v) ==
    IF v.t # "str" THEN Raise(Exc("TypeError", "expected string or bytes-like object", NoArg))
    ELSE IF ~MatchesSha1(v.s) THEN Raise(Exc("BadRequest", "Password is not in SHA1 format", NoArg))
    ELSE Ok(v)

\* user_requests.CreateUserRequests.__init__: the request object, or what it raises
CreateUserRequests(json_data) ==
    LET none == [ok |-> FALSE, username |-> JAbsent, password |-> JAbsent,
                 exc |-> Exc("none", "", NoArg)]
        TypeError == Exc("TypeError", "argument is not iterable or not subscriptable", NoArg)
    IN  IF Contains(json_data, "username") = "TypeError"
        THEN [none EXCEPT !.exc = TypeError]
        ELSE IF Contains(json_data, "username") = "no"
        THEN [none EXCEPT !.exc = Exc("BadRequest", "Username not passed in the request", NoArg)]
        ELSE IF Contains(json_data, "password") = "no"
        THEN [none EXCEPT !.exc = Exc("BadRequest", "Password not passed in the request", NoArg)]
        ELSE IF ~CanGetItem(json_data)
        THEN [none EXCEPT !.exc = TypeError]
        ELSE LET p == validatePassword(json_data.fields["password"])
             IN  IF p.ok
                 THEN [ok |-> TRUE, username |-> json_data.fields["username"],
                       password |-> p.value, exc |-> Exc("none", "", NoArg)]
                 ELSE [none EXCEPT !.exc = p.exc]

\* ------------------------------------------------------------------ inputs
Hex40 == [i \in 1..PASSWORD_LEN |-> IF i % 2 = 0 THEN "a" ELSE "9"]
Al == <<"a", "l">>
Bo == <<"b", "o">>

UserBody(u, p) == JObject([NoFields EXCEPT !["username"] = u, !["password"] = p])

UserBodies ==
    { UserBody(JStr(u), JStr(Hex40)) :
        u \in {Al, <<"a", "@">>, <<"a", " ">>, <<>>, [i \in 1..(MAX_USERNAME_LEN + 1) |-> "x"]} }
    \cup { UserBody(JNum(5), JStr(Hex40)) }
    \cup { UserBody(JStr(Al), p) :
             p \in { JStr([i \in 1..PASSWORD_LEN |-> "F"]),
                     JStr(SubSeq(Hex40, 1, PASSWORD_LEN - 1)),
                     JStr(Hex40 \o <<"a">>),
                     JStr(Hex40 \o <<"\n">>),
                     JStr([Hex40 EXCEPT ![7] = "g"]),
                     JStr(<<>>), JNum(5), JNull, JAbsent } }
    \cup { UserBody(JAbsent, JStr(Hex40)), JObject(NoFields),
           JArray(<<"username", "password">>), JArray(<<>>), JNumber(7), JNullBody,
           Malformed }

PathUsernames == {Al, Bo}

\* ------------------------------------------------------------ the process
\* no library function is called on its own while the service runs
Argument(fn, v, body, names) == [fn |-> fn, v |-> v, body |-> body, names |-> names]
NoArgument == Argument("none", JAbsent, JNullBody, <<>>)
\* what InvalidLocationError(location_type, value, min_val, max_val) is built from
NoLocation == [location_type |-> "", value |-> 0, min_val |-> 0, max_val |-> 0]
NotCalled ==
    [called |-> FALSE, ok |-> FALSE, value |-> JAbsent, exc |-> Exc("none", "", NoArg),
     location |-> NoLocation, body |-> JNullBody, missing |-> <<>>]

Idle == [pc |-> "idle", req |-> NoRequest, calls |-> <<>>]

Init ==
    /\ service \in {"users", "rides"}
    /\ http_request_counter = 0
    /\ metrics = [total_requests |-> 0, successful_requests |-> 0, failed_requests |-> 0]
    /\ inflight = [w \in Workers |-> Idle]
    /\ resp = NoResp
    /\ previous = [handler |-> "none", ride_id |-> 0]
    /\ argument = NoArgument
    /\ returned = NotCalled
    /\ database = {}
    /\ answered = 0

Inc(m, field) == [m EXCEPT ![field] = @ + 1]

\* the handler returns a response; after_request_handler is still to run
Sends(w, r) ==
    /\ resp' = r
    /\ inflight' = [inflight EXCEPT ![w] = [pc |-> "after_request", req |-> r.req,
                                            calls |-> r.calls]]
    /\ previous' = previous

\* the worker issues an external call and blocks until its reply
Calls(w, m, pc, req, calls, call) ==
    /\ metrics' = m
    /\ resp' = NoResp
    /\ inflight' = [inflight EXCEPT ![w] = [pc |-> pc, req |-> req, calls |-> Append(calls, call)]]
    /\ previous' = previous

\* an `except Exception` clause that answers with the text of the exception
Raises_LeaksError(w, m, req, calls, e, caught) ==
    /\ metrics' = Inc(m, "failed_requests")
    /\ Sends(w, create_error_response(req, calls, StrOf(e),
                                      IF e.type \in caught THEN 400 ELSE 500))

\* the except clauses of a data handler: the classes in `caught` become a 400
\* carrying str(e), every other exception an opaque 500
Raises(w, m, req, calls, e, caught) ==
    /\ metrics' = Inc(m, "failed_requests")
    /\ Sends(w, IF e.type \in caught
                THEN create_error_response(req, calls, StrOf(e), 400)
                ELSE create_error_response(req, calls, InternalServerErrorMsg, 500))

\* the success path of a data handler
Returns(w, m, req, calls, data, message, status_code) ==
    /\ metrics' = Inc(m, "successful_requests")
    /\ Sends(w, create_response(req, calls, data, message, status_code))

\* A request can arrive at an idle worker of the service.
Accepts(w, svc) ==
    /\ service = svc
    /\ inflight[w].pc = "idle"
    /\ http_request_counter < MaxCount
    /\ metrics.total_requests < MaxCount

\* validators.validate_json_content_type, as before_request_handler calls it
ContentCheckedMethods == [users |-> {"PUT", "POST"}, rides |-> {"POST"}]
validate_json_content_type(req) ==
    IF req.method \in ContentCheckedMethods[service] /\ ~is_json(req.ctype)
    THEN Raise(Exc("ValidationError", "Content-Type must be application/json", NoArg))
    ELSE Ok(JAbsent)

\* @app.errorhandler(Exception): what before_request_handler raises ends here
handle_exceptions(w, req, error) ==
    /\ metrics' = metrics
    /\ Sends(w, create_error_response(req, <<>>, InternalServerErrorMsg, 500))

\* @app.errorhandler(BadRequest)
handle_bad_request(w, req, error) ==
    /\ metrics' = metrics
    /\ Sends(w, create_error_response(req, <<>>, StrOf(error), 400))

\* flask's handler lookup: the BadRequest handler for BadRequest, else the
\* Exception handler
HandleError(w, req, error) ==
    IF error.type = "BadRequest" THEN handle_bad_request(w, req, error)
    ELSE handle_exceptions(w, req, error)

\* request.get_json() and the `if not body` test shared by the handlers
GetJsonBody(req) ==
    IF ~is_json(req.ctype)
    THEN Raise(Exc("ValidationError", "Content-Type must be application/json", NoArg))
    ELSE IF req.body.kind = "malformed"
    THEN Raise(Exc("BadRequest", "Failed to decode JSON object", NoArg))
    ELSE IF Falsy(req.body)
    THEN Raise(Exc("ValidationError", "Request body is required", NoArg))
    ELSE Ok(JAbsent)

\* ============================================================ Users service
DbCall(target, action, username, password) ==
    [Call(target, action) EXCEPT !.username = username, !.password = password]

\* main_user.add_user, up to the get_user read
add_user_begin(w, req) ==
    LET m == Inc(metrics, "total_requests")
        caught == {"ValidationError", "BadRequest"}
        body == GetJsonBody(req)
        user_request == CreateUserRequests(req.body)
    IN  IF ~body.ok THEN Raises(w, m, req, <<>>, body.exc, caught)
        ELSE IF ~user_request.ok THEN Raises(w, m, req, <<>>, user_request.exc, caught)
        ELSE Calls(w, m, "add_user:get_user", req, <<>>,
                   DbCall("db/read", "get_user", user_request.username, JAbsent))

\* before_request_handler and main_user.add_user for one PUT /api/v1/users
add_user_arrives(w, req) ==
    LET checked == validate_json_content_type(req)
    IN  /\ Accepts(w, "users")
        /\ http_request_counter' = http_request_counter + 1
        /\ IF checked.ok THEN add_user_begin(w, req)
           ELSE HandleError(w, req, checked.exc)
        /\ UNCHANGED service

\* PUT /api/v1/users arrives
add_user(w) ==
    \E ctype \in ContentTypes, body \in UserBodies :
        add_user_arrives(w, [Request("add_user", "PUT") EXCEPT !.ctype = ctype, !.body = body])

\* the existence test inverted to "anything but 404"
UserAlreadyExists_UnlessNotFound(reply) == reply.status # 404
\* the existence test looking for 201 instead of 200
UserAlreadyExists_OnCreated(reply) == reply.status = 201
\* main_user.add_user: `if response.status_code == 200` after the get_user read
UserAlreadyExists(reply) == reply.status = 200

\* only 404 treated as failure
DatabaseFailed_NotFoundOnly(reply) == reply.status = 404
\* only server errors treated as failure
DatabaseFailed_ServerErrorsOnly(reply) == reply.status >= 500
\* `if response.status_code != 200` after a database call
DatabaseFailed(reply) == reply.status # 200

\* main_user.add_user, from a given reply of the get_user read to the add_user write
add_user_after_read(w, reply) ==
    LET req == inflight[w].req
        calls == WithReply(inflight[w].calls, reply)
        user_request == CreateUserRequests(req.body)
        caught == {"ValidationError", "BadRequest"}
    IN  /\ inflight[w].pc = "add_user:get_user"
        /\ IF reply.state = "raised"
           THEN Raises(w, metrics, req, calls, Exc("RequestException", "", NoArg), caught)
           ELSE IF UserAlreadyExists(reply)
           THEN Raises(w, metrics, req, calls,
                       Exc("ValidationError", "User {} already exists",
                           user_request.username), caught)
           ELSE Calls(w, metrics, "add_user:add_user", req, calls,
                      DbCall("db/write", "add_user", user_request.username,
                             user_request.password))
        /\ UNCHANGED <<service, http_request_counter>>

\* the get_user read is answered
add_user_read(w) == \E reply \in DbStatusReplies : add_user_after_read(w, reply)

\* main_user.add_user, from a given reply of the add_user write
add_user_after_write(w, reply) ==
    LET req == inflight[w].req
        calls == WithReply(inflight[w].calls, reply)
        caught == {"ValidationError", "BadRequest"}
    IN  /\ inflight[w].pc = "add_user:add_user"
        /\ IF reply.state = "raised"
           THEN Raises(w, metrics, req, calls, Exc("RequestException", "", NoArg), caught)
           ELSE IF DatabaseFailed(reply)
           THEN Raises(w, metrics, req, calls,
                       Exc("InternalServerError", "Failed to create user", NoArg), caught)
           ELSE Returns(w, metrics, req, calls, NoData,
                        Text("User created successfully"), 201)
        /\ UNCHANGED <<service, http_request_counter>>

\* the add_user write is answered
add_user_write(w) == \E reply \in DbStatusReplies : add_user_after_write(w, reply)

\* DELETE /api/v1/users/<username> arrives: main_user.delete_user up to the read
delete_user(w) ==
    \E username \in PathUsernames :
        LET req == [Request("delete_user", "DELETE") EXCEPT !.username = username]
            m == Inc(metrics, "total_requests")
            checked == validate_json_content_type(req)
        IN  /\ Accepts(w, "users")
            /\ http_request_counter' = http_request_counter + 1
            /\ IF ~checked.ok THEN HandleError(w, req, checked.exc)
               ELSE IF username = <<>>
               THEN Raises(w, m, req, <<>>,
                           Exc("ValidationError", "Username is required", NoArg),
                           {"ValidationError", "NotFound"})
               ELSE Calls(w, m, "delete_user:get_user", req, <<>>,
                          DbCall("db/read", "get_user", JStr(username), JAbsent))
            /\ UNCHANGED service

\* main_user.delete_user, from the reply of the get_user read
delete_user_read(w) ==
    \E reply \in DbStatusReplies :
        LET req == inflight[w].req
            calls == WithReply(inflight[w].calls, reply)
            caught == {"ValidationError", "NotFound"}
        IN  /\ inflight[w].pc = "delete_user:get_user"
            /\ IF reply.state = "raised"
               THEN Raises(w, metrics, req, calls, Exc("RequestException", "", NoArg), caught)
               ELSE IF DatabaseFailed(reply)
               THEN Raises(w, metrics, req, calls,
                           Exc("NotFound", "User {} not found", JStr(req.username)), caught)
               ELSE Calls(w, metrics, "delete_user:delete_user", req, calls,
                          DbCall("db/write", "delete_user", JStr(req.username), JAbsent))
            /\ UNCHANGED <<service, http_request_counter>>

\* main_user.delete_user, from the reply of the delete_user write
delete_user_write(w) ==
    \E reply \in DbStatusReplies :
        LET req == inflight[w].req
            calls == WithReply(inflight[w].calls, reply)
            caught == {"ValidationError", "NotFound"}
        IN  /\ inflight[w].pc = "delete_user:delete_user"
            /\ IF reply.state = "raised"
               THEN Raises(w, metrics, req, calls, Exc("RequestException", "", NoArg), caught)
               ELSE IF DatabaseFailed(reply)
               THEN Raises(w, metrics, req, calls,
                           Exc("InternalServerError", "Failed to delete user", NoArg), caught)
               ELSE Returns(w, metrics, req, calls, NoData,
                            Text("User deleted successfully"), 200)
            /\ UNCHANGED <<service, http_request_counter>>

\* GET /api/v1/users arrives: main_user.list_users up to the list_users read
list_users(w) ==
    LET req == Request("list_users", "GET")
    IN  /\ Accepts(w, "users")
        /\ http_request_counter' = http_request_counter + 1
        /\ Calls(w, Inc(metrics, "total_requests"), "list_users:list_users", req, <<>>,
                 Call("db/read", "list_users"))
        /\ UNCHANGED service

\* main_user.list_users, from the reply of the read
list_users_read(w) ==
    \E reply \in DbReplies :
        LET req == inflight[w].req
            calls == WithReply(inflight[w].calls, reply)
        IN  /\ inflight[w].pc = "list_users:list_users"
            /\ IF reply.state = "raised"
               THEN Raises(w, metrics, req, calls, Exc("RequestException", "", NoArg), {})
               ELSE IF DatabaseFailed(reply)
               THEN Raises(w, metrics, req, calls,
                           Exc("InternalServerError", "Failed to retrieve users", NoArg), {})
               ELSE IF ~reply.json.ok
               THEN Raises(w, metrics, req, calls, Exc("JSONDecodeError", "", NoArg), {})
               ELSE IF ~(JsonHasLen(reply.json))
               \* successful_requests is incremented, then len(users) raises
               THEN /\ metrics' = Inc(Inc(metrics, "successful_requests"), "failed_requests")
                    /\ Sends(w, create_error_response(req, calls, InternalServerErrorMsg, 500))
               ELSE Returns(w, metrics, req, calls, JsonData(reply.json), NoMsg, 200)
            /\ UNCHANGED <<service, http_request_counter>>

\* ==================================================== both services: counters
\* A handler without a try block: it cannot fail and touches no metric.
Introspection(w, req, data, message) ==
    LET checked == validate_json_content_type(req)
    IN  /\ service \in {"users", "rides"}
        /\ inflight[w].pc = "idle"
        /\ http_request_counter < MaxCount
        /\ metrics.total_requests < MaxCount
        /\ IF checked.ok
           THEN /\ metrics' = metrics
                /\ Sends(w, create_response(req, <<>>, data, message, 200))
           ELSE HandleError(w, req, checked.exc)
        /\ UNCHANGED service

\* a GET /api/v1/_count that before_request_handler does not count
get_request_count_Uncounted(w) ==
    /\ http_request_counter' = http_request_counter
    /\ Introspection(w, Request("get_request_count", "GET"),
                     CountData(http_request_counter'), NoMsg)

\* GET /api/v1/_count: data=[http_request_counter], read after before_request_handler
get_request_count(w) ==
    /\ http_request_counter' = http_request_counter + 1
    /\ Introspection(w, Request("get_request_count", "GET"),
                     CountData(http_request_counter'), NoMsg)

\* a reset that leaves the counter as before_request_handler left it
reset_request_count_KeepsCount(w) ==
    /\ http_request_counter' = http_request_counter + 1
    /\ Introspection(w, Request("reset_request_count", "DELETE"), NoData,
                     Text("Request counter reset successfully"))

\* a reset that clears the ServiceMetrics counters as well
reset_request_count_ClearsMetrics(w) ==
    /\ http_request_counter' = 0
    /\ inflight[w].pc = "idle"
    /\ http_request_counter < MaxCount
    /\ metrics.total_requests < MaxCount
    /\ metrics' = [total_requests |-> 0, successful_requests |-> 0, failed_requests |-> 0]
    /\ Sends(w, create_response(Request("reset_request_count", "DELETE"), <<>>, NoData,
                                Text("Request counter reset successfully"), 200))
    /\ UNCHANGED service

\* DELETE /api/v1/_count: before_request_handler counts it, the handler resets
reset_request_count(w) ==
    /\ http_request_counter' = 0
    /\ Introspection(w, Request("reset_request_count", "DELETE"), NoData,
                     Text("Request counter reset successfully"))

\* GET /health
health_check(w) ==
    /\ http_request_counter' = http_request_counter + 1
    /\ Introspection(w, Request("health_check", "GET"), StaticData("health"), NoMsg)

\* GET /metrics
get_metrics(w) ==
    /\ http_request_counter' = http_request_counter + 1
    /\ Introspection(w, Request("get_metrics", "GET"), StaticData("metrics"), NoMsg)

\* GET /
root(w) ==
    /\ http_request_counter' = http_request_counter + 1
    /\ Introspection(w, Request("root", "GET"), StaticData("root"), NoMsg)

\* A PUT or POST for which the service has no route: before_request_handler
\* runs, then routing raises 404 or 405, which the Exception handler answers.
no_route(w) ==
    \E method \in {"PUT", "POST"}, ctype \in ContentTypes :
        LET req == [Request("no_route", method) EXCEPT !.ctype = ctype]
            checked == validate_json_content_type(req)
        IN  /\ Accepts(w, service)
            /\ http_request_counter' = http_request_counter + 1
            /\ IF checked.ok
               THEN handle_exceptions(w, req, Exc("MethodNotAllowed", "", NoArg))
               ELSE HandleError(w, req, checked.exc)
            /\ UNCHANGED service

\* ============================================================ Rides service
\* ------------------------------------------------------- numbers and dates
DigitValue(c) ==
    CASE c = "0" -> 0 [] c = "1" -> 1 [] c = "2" -> 2 [] c = "3" -> 3 [] c = "4" -> 4
      [] c = "5" -> 5 [] c = "6" -> 6 [] c = "7" -> 7 [] c = "8" -> 8 [] c = "9" -> 9

DigitChar(d) == <<"0", "1", "2", "3", "4", "5", "6", "7", "8", "9">>[d + 1]

\* the value of a run of decimal digits
RECURSIVE DigitsValue(_)
DigitsValue(s) ==
    IF s = <<>> THEN 0
    ELSE 10 * DigitsValue(SubSeq(s, 1, Len(s) - 1)) + DigitValue(s[Len(s)])

\* str(n) for n >= 0
RECURSIVE IntToStr(_)
IntToStr(n) == IF n < 10 THEN <<DigitChar(n)>> ELSE IntToStr(n \div 10) \o <<DigitChar(n % 10)>>

\* "%02d" % n
Pad2(n) == IF n < 10 THEN <<"0">> \o IntToStr(n) ELSE IntToStr(n)

RECURSIVE DropUnderscores(_)
DropUnderscores(s) ==
    IF s = <<>> THEN <<>>
    ELSE IF Head(s) = "_" THEN DropUnderscores(Tail(s))
    ELSE <<Head(s)>> \o DropUnderscores(Tail(s))

\* int(s) for a str: surrounding whitespace, one sign, digits, single
\* underscores between digits.  [ok, n]
ParseInt(s) ==
    LET t == Strip(s)
        signed == t # <<>> /\ Head(t) \in {"+", "-"}
        body == IF signed THEN Tail(t) ELSE t
        wellformed ==
            /\ body # <<>>
            /\ AllIn(body, Digits \cup {"_"})
            /\ body[1] # "_" /\ body[Len(body)] # "_"
            /\ \A i \in 1..(Len(body) - 1) : ~(body[i] = "_" /\ body[i + 1] = "_")
        value == DigitsValue(DropUnderscores(body))
    IN  IF wellformed
        THEN [ok |-> TRUE, n |-> IF signed /\ Head(t) = "-" THEN 0 - value ELSE value]
        ELSE [ok |-> FALSE, n |-> 0]

\* int(x) for a JSON value: ValueError and TypeError are both ok = FALSE
ToInt(v) ==
    CASE v.t = "num" -> [ok |-> TRUE, n |-> v.n]
      [] v.t = "str" -> ParseInt(v.s)
      [] OTHER -> [ok |-> FALSE, n |-> 0]

IsLeap(y) == (y % 4 = 0 /\ y % 100 # 0) \/ y % 400 = 0
DaysInMonth(y, m) ==
    IF m = 2 THEN (IF IsLeap(y) THEN 29 ELSE 28)
    ELSE IF m \in {4, 6, 9, 11} THEN 30 ELSE 31

\* the position of the first occurrence of c in s at or after i, else 0
RECURSIVE Find(_, _, _)
Find(s, c, i) == IF i > Len(s) THEN 0 ELSE IF s[i] = c THEN i ELSE Find(s, c, i + 1)

DigitRun(s, lo, hi) == Len(s) \in lo..hi /\ AllIn(s, Digits)

\* datetime.strptime(timestamp, "%d-%m-%Y:%S-%M-%H"): the directives take one
\* or two digits (%Y exactly four), then the date must exist
NoDate == [ok |-> FALSE, day |-> 0, month |-> 0, year |-> 0, second |-> 0, minute |-> 0, hour |-> 0]
strptime(s) ==
    LET p1 == Find(s, "-", 1)
        p2 == IF p1 = 0 THEN 0 ELSE Find(s, "-", p1 + 1)
        p3 == IF p2 = 0 THEN 0 ELSE Find(s, ":", p2 + 1)
        p4 == IF p3 = 0 THEN 0 ELSE Find(s, "-", p3 + 1)
        p5 == IF p4 = 0 THEN 0 ELSE Find(s, "-", p4 + 1)
        d0 == SubSeq(s, 1, p1 - 1)
        \* %d also takes a space and one digit
        d == IF Len(d0) = 2 /\ d0[1] = " " THEN Tail(d0) ELSE d0
        m == SubSeq(s, p1 + 1, p2 - 1)
        Y == SubSeq(s, p2 + 1, p3 - 1)
        S == SubSeq(s, p3 + 1, p4 - 1)
        M == SubSeq(s, p4 + 1, p5 - 1)
        H == SubSeq(s, p5 + 1, Len(s))
    IN  IF /\ p5 # 0
           /\ DigitRun(d, 1, 2) /\ DigitRun(m, 1, 2) /\ DigitRun(Y, 4, 4)
           /\ DigitRun(S, 1, 2) /\ DigitRun(M, 1, 2) /\ DigitRun(H, 1, 2)
           /\ DigitsValue(m) \in 1..12
           /\ DigitsValue(Y) >= 1
           /\ DigitsValue(d) \in 1..DaysInMonth(DigitsValue(Y), DigitsValue(m))
           /\ DigitsValue(S) \in 0..59
           /\ DigitsValue(M) \in 0..59
           /\ DigitsValue(H) \in 0..23
        THEN [ok |-> TRUE, day |-> DigitsValue(d), month |-> DigitsValue(m),
              year |-> DigitsValue(Y), second |-> DigitsValue(S),
              minute |-> DigitsValue(M), hour |-> DigitsValue(H)]
        ELSE NoDate

\* "%04d" % n
Pad4(n) ==
    IF n < 10 THEN <<"0", "0", "0">> \o IntToStr(n)
    ELSE IF n < 100 THEN <<"0", "0">> \o IntToStr(n)
    ELSE IF n < 1000 THEN <<"0">> \o IntToStr(n)
    ELSE IntToStr(n)

\* how the C library under datetime.strftime prints %Y: the builds differ, glibc
\* prints the year without leading zeros, others pad it to four digits
YearPaddings == {"padded", "unpadded"}

\* datetime.strftime("%d-%m-%Y:%S-%M-%H") on a build with the given %Y
strftime(t, padding) ==
    Pad2(t.day) \o <<"-">> \o Pad2(t.month) \o <<"-">>
    \o (IF padding = "padded" THEN Pad4(t.year) ELSE IntToStr(t.year)) \o <<":">>
    \o Pad2(t.second) \o <<"-">> \o Pad2(t.minute) \o <<"-">> \o Pad2(t.hour)

\* --------------------------------------------------------- ride_requests.py
\* CreateRideRequests.validateSource / validateDestination
validateLocation(v, what) ==
    LET i == ToInt(v)
    IN  IF i.ok /\ i.n >= MIN_SOURCE_DESTINATION /\ i.n <= MAX_SOURCE_DESTINATION
        THEN Ok(JNum(i.n))
        ELSE Raise(Exc("BadRequest", what, NoArg))
validateSource(v) == validateLocation(v, "Invalid source passed")
validateDestination(v) == validateLocation(v, "Invalid destination passed")

\* CreateRideRequests.validateTimestamp: any exception becomes BadRequest
validateTimestamp(v) ==
    IF v.t = "str" /\ strptime(v.s).ok THEN strptime(v.s) ELSE NoDate

\* CreateRideRequests.__init__
CreateRideRequests(json_data) ==
    LET none == [ok |-> FALSE, created_by |-> JAbsent, source |-> JAbsent,
                 destination |-> JAbsent, timestamp |-> NoDate,
                 exc |-> Exc("none", "", NoArg)]
        TypeError == Exc("TypeError", "argument is not iterable or not subscriptable", NoArg)
        Missing(k) == Contains(json_data, k) = "no"
    IN  IF Contains(json_data, "created_by") = "TypeError"
        THEN [none EXCEPT !.exc = TypeError]
        ELSE IF Missing("created_by")
        THEN [none EXCEPT !.exc = Exc("BadRequest", "Created_by not passed in the request", NoArg)]
        ELSE IF Missing("timestamp")
        THEN [none EXCEPT !.exc = Exc("BadRequest", "Timestamp not passed in the request", NoArg)]
        ELSE IF Missing("source")
        THEN [none EXCEPT !.exc = Exc("BadRequest", "Source not passed in the request", NoArg)]
        ELSE IF Missing("destination")
        THEN [none EXCEPT !.exc = Exc("BadRequest", "Destination not passed in the request", NoArg)]
        ELSE IF ~CanGetItem(json_data)
        THEN [none EXCEPT !.exc = TypeError]
        ELSE LET src == validateSource(json_data.fields["source"])
                 dst == validateDestination(json_data.fields["destination"])
                 ts == validateTimestamp(json_data.fields["timestamp"])
             IN  IF ~src.ok THEN [none EXCEPT !.exc = src.exc]
                 ELSE IF ~dst.ok THEN [none EXCEPT !.exc = dst.exc]
                 ELSE IF ~ts.ok
                 THEN [none EXCEPT !.exc =
                         Exc("BadRequest",
                             "Invalid timestamp {}. Please use the format DD-MM-YYYY:SS-MM-HH",
                             json_data.fields["timestamp"])]
                 ELSE [ok |-> TRUE, created_by |-> json_data.fields["created_by"],
                       source |-> src.value, destination |-> dst.value, timestamp |-> ts,
                       exc |-> Exc("none", "", NoArg)]

\* `username not in response.text`: "yes", "no", or "TypeError" when the
\* left operand is not a str
InText(v, text) ==
    IF v.t # "str" THEN "TypeError" ELSE IF IsSubstring(v.s, text) THEN "yes" ELSE "no"

\* ------------------------------------------------------------------ inputs
TextUsersAl ==
    <<"{", "\"", "d", "a", "t", "a", "\"", ":", "[", "\"", "a", "l", "\"", "]", "}", "\n">>
TextUsersNone ==
    <<"{", "\"", "d", "a", "t", "a", "\"", ":", "[", "]", "}", "\n">>
TextUsersError ==
    <<"{", "\"", "e", "r", "r", "o", "r", "\"", ":", "{", "\"", "m", "e", "s", "s", "a",
      "g", "e", "\"", ":", "\"", "I", "n", "t", "e", "r", "n", "a", "l", " ", "s", "e",
      "r", "v", "e", "r", " ", "e", "r", "r", "o", "r", "\"", ",", "\"", "s", "t", "a",
      "t", "u", "s", "_", "c", "o", "d", "e", "\"", ":", "5", "0", "0", "}", "}", "\n">>

\* what GET {USER_SERVICE_URL}/api/v1/users answers
UsersReplies ==
    { HttpReply(200, UnparseableJson, TextUsersAl), HttpReply(200, UnparseableJson, TextUsersNone),
      HttpReply(500, UnparseableJson, TextUsersError), RequestException }

TsValid ==
    <<"0", "1", "-", "0", "1", "-", "2", "0", "2", "4", ":", "3", "0", "-", "1", "5", "-",
      "1", "0">>
TsYearFirst ==
    <<"2", "0", "2", "4", "-", "0", "1", "-", "0", "1", ":", "1", "0", "-", "1", "5", "-",
      "3", "0">>
TsSingleDigits ==
    <<"1", "-", "1", "-", "2", "0", "2", "4", ":", "5", "-", "5", "-", "5">>
TsNoSuchDay ==
    <<"3", "1", "-", "0", "2", "-", "2", "0", "2", "4", ":", "0", "0", "-", "0", "0", "-",
      "0", "0">>
TsLeapSecond ==
    <<"0", "1", "-", "0", "1", "-", "2", "0", "2", "4", ":", "6", "0", "-", "1", "5", "-",
      "1", "0">>

TsEarlyYear ==
    <<"0", "1", "-", "0", "1", "-", "0", "9", "9", "9", ":", "3", "0", "-", "1", "5", "-",
      "1", "0">>

RideBody(created_by, source, destination, timestamp) ==
    JObject([NoFields EXCEPT !["created_by"] = created_by, !["source"] = source,
                             !["destination"] = destination, !["timestamp"] = timestamp])

RideUsernames ==
    {JStr(Al), JStr(<<"a">>), JStr(Bo), JStr(<<"e", "r", "r", "o", "r">>), JStr(<<>>), JNum(5)}

RideBodies ==
    { RideBody(u, JNum(5), JNum(10), JStr(TsValid)) : u \in RideUsernames \cup {JAbsent} }
    \cup { RideBody(JStr(Al), x, JNum(10), JStr(TsValid)) :
             x \in {JNum(1), JNum(198), JNum(0), JNum(199), JStr(<<"7">>), JStr(<<"x">>),
                    JNull, JAbsent} }
    \cup { RideBody(JStr(Al), JNum(5), x, JStr(TsValid)) : x \in {JNum(0), JNum(199), JAbsent} }
    \cup { RideBody(JStr(Al), JNum(5), JNum(10), x) :
             x \in {JStr(TsYearFirst), JStr(TsSingleDigits), JStr(TsNoSuchDay),
                    JStr(TsLeapSecond), JStr(TsEarlyYear), JNum(5), JAbsent} }
    \cup { JObject(NoFields), JArray(<<"created_by">>), JNumber(7), Malformed }

JoinBodies ==
    { JObject([NoFields EXCEPT !["username"] = u]) : u \in RideUsernames }
    \cup { JObject([NoFields EXCEPT !["password"] = JStr(Al)]), JObject(NoFields),
           JArray(<<"username">>), JNumber(7), Malformed }

RideIds == {0, 1, 42}
JoinRideIds == {0, 42}

QueryValues ==
    { QNone, QArg(<<>>), QArg(<<"5">>), QArg(<<"1">>), QArg(<<"1", "9", "8">>),
      QArg(<<"0">>), QArg(<<"1", "9", "9">>), QArg(<<"-", "3">>), QArg(<<"a", "b">>),
      QArg(<<" ", "7">>), QArg(<<"5", ".", "0">>) }
DestinationValues ==
    { QNone, QArg(<<>>), QArg(<<"1", "0">>), QArg(<<"1">>), QArg(<<"1", "9", "8">>),
      QArg(<<"0">>), QArg(<<"1", "9", "9">>), QArg(<<"x">>) }

\* ----------------------------------------------------------------- handlers
RideCall(target, action, ride_id) == [Call(target, action) EXCEPT !.ride_id = ride_id]

\* main_rides.add_ride, up to the existence check at the Users service
add_ride_begin(w, req) ==
    LET m == Inc(metrics, "total_requests")
        caught == {"ValidationError", "BadRequest"}
        body == GetJsonBody(req)
        ride_request == CreateRideRequests(req.body)
    IN  IF ~body.ok THEN Raises(w, m, req, <<>>, body.exc, caught)
        ELSE IF ~ride_request.ok THEN Raises(w, m, req, <<>>, ride_request.exc, caught)
        ELSE Calls(w, m, "add_ride:users", req, <<>>,
                   [Call("users", "GET /api/v1/users") EXCEPT
                      !.username = ride_request.created_by])

\* POST /api/v1/rides arrives
add_ride(w) ==
    \E ctype \in ContentTypes, body \in RideBodies :
        LET req == [Request("add_ride", "POST") EXCEPT !.ctype = ctype, !.body = body]
            checked == validate_json_content_type(req)
        IN  /\ Accepts(w, "rides")
            /\ http_request_counter' = http_request_counter + 1
            /\ IF checked.ok THEN add_ride_begin(w, req)
               ELSE HandleError(w, req, checked.exc)
            /\ UNCHANGED service

\* an existence check that looks at the status of the Users reply only
UserFound_StatusOnly(username, reply) == IF reply.status = 200 THEN "yes" ELSE "no"
\* the existence check: `if username not in response.text`
UserFound(username, reply) == InText(username, reply.text)

\* main_rides.add_ride, from the Users reply to the add_ride write
add_ride_users(w) ==
    \E reply \in UsersReplies, padding \in YearPaddings :
        LET req == inflight[w].req
            calls == WithReply(inflight[w].calls, reply)
            ride_request == CreateRideRequests(req.body)
            caught == {"ValidationError", "BadRequest"}
        IN  /\ inflight[w].pc = "add_ride:users"
            /\ IF reply.state = "raised"
               THEN Raises(w, metrics, req, calls, Exc("RequestException", "", NoArg), caught)
               ELSE IF UserFound(ride_request.created_by, reply) = "TypeError"
               THEN Raises(w, metrics, req, calls,
                           Exc("TypeError", "'in <string>' requires string as left operand",
                               NoArg), caught)
               ELSE IF UserFound(ride_request.created_by, reply) = "no"
               THEN Raises(w, metrics, req, calls,
                           Exc("ValidationError", "User {} not found", ride_request.created_by),
                           caught)
               ELSE Calls(w, metrics, "add_ride:add_ride", req, calls,
                          [Call("db/write", "add_ride") EXCEPT
                             !.username = ride_request.created_by,
                             !.source = ride_request.source,
                             !.destination = ride_request.destination,
                             !.timestamp = strftime(ride_request.timestamp, padding)])
            /\ UNCHANGED <<service, http_request_counter>>

\* main_rides.add_ride, from the reply of the add_ride write
add_ride_write(w) ==
    \E reply \in DbReplies :
        LET req == inflight[w].req
            calls == WithReply(inflight[w].calls, reply)
            caught == {"ValidationError", "BadRequest"}
        IN  /\ inflight[w].pc = "add_ride:add_ride"
            /\ IF reply.state = "raised"
               THEN Raises(w, metrics, req, calls, Exc("RequestException", "", NoArg), caught)
               ELSE IF DatabaseFailed(reply)
               THEN Raises(w, metrics, req, calls,
                           Exc("InternalServerError", "Failed to create ride", NoArg), caught)
               ELSE IF ~reply.json.ok
               \* successful_requests is incremented, then response.json() raises
               THEN /\ metrics' = Inc(Inc(metrics, "successful_requests"), "failed_requests")
                    /\ Sends(w, create_error_response(req, calls, InternalServerErrorMsg, 500))
               ELSE Returns(w, metrics, req, calls, JsonData(reply.json), NoMsg, 201)
            /\ UNCHANGED <<service, http_request_counter>>

\* a range test that lets 0 through
LocationOutOfRange_FromZero(n) == n < 0 \/ n > MAX_SOURCE_DESTINATION
\* `source < 1 or source > 198` of list_upcoming_rides
LocationOutOfRange(n) == n < MIN_SOURCE_DESTINATION \/ n > MAX_SOURCE_DESTINATION

\* request.args.get(name) and the checks of list_upcoming_rides on it
ParseLocations(source, destination) ==
    LET src == ParseInt(source.s)
        dst == ParseInt(destination.s)
        InRange(n) == ~LocationOutOfRange(n)
        none == [ok |-> FALSE, source |-> 0, destination |-> 0, exc |-> Exc("none", "", NoArg)]
    IN  IF ~source.present \/ source.s = <<>> \/ ~destination.present \/ destination.s = <<>>
        THEN [none EXCEPT !.exc = Exc("ValidationError",
                                      "Source and destination parameters are required", NoArg)]
        ELSE IF ~src.ok \/ ~dst.ok
        THEN [none EXCEPT !.exc = Exc("ValidationError",
                                      "Source and destination must be valid integers", NoArg)]
        ELSE IF ~InRange(src.n)
        THEN [none EXCEPT !.exc = Exc("ValidationError", "Source must be between 1 and 198", NoArg)]
        ELSE IF ~InRange(dst.n)
        THEN [none EXCEPT !.exc = Exc("ValidationError",
                                      "Destination must be between 1 and 198", NoArg)]
        ELSE [ok |-> TRUE, source |-> src.n, destination |-> dst.n, exc |-> Exc("none", "", NoArg)]

\* GET /api/v1/rides arrives: main_rides.list_upcoming_rides up to the read
list_upcoming_rides(w) ==
    \E source \in QueryValues, destination \in DestinationValues :
        LET req == [Request("list_upcoming_rides", "GET") EXCEPT
                      !.source = source, !.destination = destination]
            m == Inc(metrics, "total_requests")
            args == ParseLocations(source, destination)
        IN  /\ Accepts(w, "rides")
            /\ http_request_counter' = http_request_counter + 1
            /\ IF ~args.ok
               THEN Raises(w, m, req, <<>>, args.exc, {"ValidationError", "BadRequest"})
               ELSE Calls(w, m, "list_upcoming_rides:list_upcoming_ride", req, <<>>,
                          [Call("db/read", "list_upcoming_ride") EXCEPT
                             !.source = JStr(IntToStr(args.source)),
                             !.destination = JStr(IntToStr(args.destination))])
            /\ UNCHANGED service

\* main_rides.list_upcoming_rides, from the reply of the read
list_upcoming_rides_read(w) ==
    \E reply \in DbReplies :
        LET req == inflight[w].req
            calls == WithReply(inflight[w].calls, reply)
            caught == {"ValidationError", "BadRequest"}
        IN  /\ inflight[w].pc = "list_upcoming_rides:list_upcoming_ride"
            /\ IF reply.state = "raised"
               THEN Raises(w, metrics, req, calls, Exc("RequestException", "", NoArg), caught)
               ELSE IF DatabaseFailed(reply)
               THEN Raises(w, metrics, req, calls,
                           Exc("InternalServerError", "Failed to retrieve rides", NoArg), caught)
               ELSE IF ~reply.json.ok
               THEN Raises(w, metrics, req, calls, Exc("JSONDecodeError", "", NoArg), caught)
               ELSE IF JsonFalsy(reply.json)
               THEN Returns(w, metrics, req, calls, NoData, NoMsg, 204)
               ELSE IF ~JsonHasLen(reply.json)
               \* `not rides or len(rides) == 0`: len raises before any counter moves
               THEN Raises(w, metrics, req, calls,
                           Exc("TypeError", "object has no len()", NoArg), caught)
               ELSE Returns(w, metrics, req, calls, JsonData(reply.json), NoMsg, 200)
            /\ UNCHANGED <<service, http_request_counter>>

\* `if ride_id <= 0` of get_ride and delete_ride
InvalidRideId(ride_id) == ride_id <= 0

\* GET /api/v1/rides/<int:ride_id> arrives: main_rides.get_ride up to the read
get_ride(w) ==
    \E ride_id \in RideIds :
        LET req == [Request("get_ride", "GET") EXCEPT !.ride_id = ride_id]
            m == Inc(metrics, "total_requests")
        IN  /\ Accepts(w, "rides")
            /\ http_request_counter' = http_request_counter + 1
            /\ IF InvalidRideId(ride_id)
               THEN Raises(w, m, req, <<>>,
                           Exc("ValidationError", "Ride ID must be a positive integer", NoArg),
                           {"ValidationError"})
               ELSE Calls(w, m, "get_ride:get_ride", req, <<>>,
                          RideCall("db/read", "get_ride", ride_id))
            /\ UNCHANGED service

\* only 404 taken as "no such ride"
RideAbsent_Only404(reply) == reply.status = 404
\* main_rides.get_ride: `if response.status_code != 200` gives 204
RideAbsent(reply) == reply.status # 200

\* main_rides.get_ride, from the reply of the read
get_ride_read(w) ==
    \E reply \in DbReplies :
        LET req == inflight[w].req
            calls == WithReply(inflight[w].calls, reply)
        IN  /\ inflight[w].pc = "get_ride:get_ride"
            /\ IF reply.state = "raised"
               THEN Raises(w, metrics, req, calls, Exc("RequestException", "", NoArg),
                           {"ValidationError"})
               ELSE IF RideAbsent(reply)
               THEN Returns(w, metrics, req, calls, NoData, NoMsg, 204)
               ELSE IF ~reply.json.ok
               THEN Raises(w, metrics, req, calls, Exc("JSONDecodeError", "", NoArg),
                           {"ValidationError"})
               ELSE Returns(w, metrics, req, calls, JsonData(reply.json), NoMsg, 200)
            /\ UNCHANGED <<service, http_request_counter>>

\* GET /api/v1/rides/count arrives: main_rides.get_ride_count up to the read
get_ride_count(w) ==
    LET req == Request("get_ride_count", "GET")
    IN  /\ Accepts(w, "rides")
        /\ http_request_counter' = http_request_counter + 1
        /\ Calls(w, Inc(metrics, "total_requests"), "get_ride_count:num_ride", req, <<>>,
                 Call("db/read", "num_ride"))
        /\ UNCHANGED service

\* main_rides.get_ride_count, from the reply of the read
get_ride_count_read(w) ==
    \E reply \in DbReplies :
        LET req == inflight[w].req
            calls == WithReply(inflight[w].calls, reply)
        IN  /\ inflight[w].pc = "get_ride_count:num_ride"
            /\ IF reply.state = "raised"
               THEN Raises(w, metrics, req, calls, Exc("RequestException", "", NoArg), {})
               ELSE IF DatabaseFailed(reply)
               THEN Raises(w, metrics, req, calls,
                           Exc("InternalServerError", "Failed to get ride count", NoArg), {})
               ELSE IF ~reply.json.ok
               THEN Raises(w, metrics, req, calls, Exc("JSONDecodeError", "", NoArg), {})
               ELSE Returns(w, metrics, req, calls, JsonData(reply.json), NoMsg, 200)
            /\ UNCHANGED <<service, http_request_counter>>

\* main_rides.join_ride, up to the existence check at the Users service
join_ride_begin(w, req) ==
    LET m == Inc(metrics, "total_requests")
        caught == {"ValidationError", "BadRequest"}
        body == GetJsonBody(req)
    IN  IF ~body.ok THEN Raises(w, m, req, <<>>, body.exc, caught)
        ELSE IF Contains(req.body, "username") = "TypeError"
        THEN Raises(w, m, req, <<>>, Exc("TypeError", "argument is not iterable", NoArg), caught)
        ELSE IF Contains(req.body, "username") = "no"
        THEN Raises(w, m, req, <<>>,
                    Exc("ValidationError", "Username is required in request body", NoArg), caught)
        ELSE IF ~CanGetItem(req.body)
        THEN Raises(w, m, req, <<>>,
                    Exc("TypeError", "list indices must be integers", NoArg), caught)
        ELSE Calls(w, m, "join_ride:users", req, <<>>,
                   [Call("users", "GET /api/v1/users") EXCEPT
                      !.username = req.body.fields["username"]])

\* POST /api/v1/rides/<int:ride_id> arrives
join_ride(w) ==
    \E ctype \in ContentTypes, body \in JoinBodies, ride_id \in JoinRideIds :
        LET req == [Request("join_ride", "POST") EXCEPT
                      !.ctype = ctype, !.body = body, !.ride_id = ride_id]
            checked == validate_json_content_type(req)
        IN  /\ Accepts(w, "rides")
            /\ http_request_counter' = http_request_counter + 1
            /\ IF checked.ok THEN join_ride_begin(w, req)
               ELSE HandleError(w, req, checked.exc)
            /\ UNCHANGED service

\* main_rides.join_ride, from the Users reply to the join_ride write
join_ride_users(w) ==
    \E reply \in UsersReplies :
        LET req == inflight[w].req
            calls == WithReply(inflight[w].calls, reply)
            username == req.body.fields["username"]
            caught == {"ValidationError", "BadRequest"}
        IN  /\ inflight[w].pc = "join_ride:users"
            /\ IF reply.state = "raised"
               THEN Raises(w, metrics, req, calls, Exc("RequestException", "", NoArg), caught)
               ELSE IF UserFound(username, reply) = "TypeError"
               THEN Raises(w, metrics, req, calls,
                           Exc("TypeError", "'in <string>' requires string as left operand",
                               NoArg), caught)
               ELSE IF UserFound(username, reply) = "no"
               THEN Raises(w, metrics, req, calls,
                           Exc("ValidationError", "User {} not found", username), caught)
               ELSE Calls(w, metrics, "join_ride:join_ride", req, calls,
                          [RideCall("db/write", "join_ride", req.ride_id) EXCEPT
                             !.username = username])
            /\ UNCHANGED <<service, http_request_counter>>

\* main_rides.join_ride, from the reply of the join_ride write
join_ride_write(w) ==
    \E reply \in DbStatusReplies :
        LET req == inflight[w].req
            calls == WithReply(inflight[w].calls, reply)
            caught == {"ValidationError", "BadRequest"}
        IN  /\ inflight[w].pc = "join_ride:join_ride"
            /\ IF reply.state = "raised"
               THEN Raises(w, metrics, req, calls, Exc("RequestException", "", NoArg), caught)
               ELSE IF DatabaseFailed(reply)
               THEN Raises(w, metrics, req, calls,
                           Exc("InternalServerError", "Failed to join ride", NoArg), caught)
               ELSE Returns(w, metrics, req, calls, NoData,
                            Text("Successfully joined ride"), 200)
            /\ UNCHANGED <<service, http_request_counter>>

\* a delete that looks the ride up instead of deleting it
delete_ride_ReadsFirst(w) ==
    \E ride_id \in RideIds :
        LET req == [Request("delete_ride", "DELETE") EXCEPT !.ride_id = ride_id]
            m == Inc(metrics, "total_requests")
        IN  /\ Accepts(w, "rides")
            /\ http_request_counter' = http_request_counter + 1
            /\ IF InvalidRideId(ride_id)
               THEN Raises(w, m, req, <<>>,
                           Exc("ValidationError", "Ride ID must be a positive integer", NoArg),
                           {"ValidationError"})
               ELSE Calls(w, m, "delete_ride:delete_ride", req, <<>>,
                          RideCall("db/read", "get_ride", ride_id))
            /\ UNCHANGED service

\* DELETE /api/v1/rides/<int:ride_id> arrives: main_rides.delete_ride up to the write
delete_ride(w) ==
    \E ride_id \in RideIds :
        LET req == [Request("delete_ride", "DELETE") EXCEPT !.ride_id = ride_id]
            m == Inc(metrics, "total_requests")
        IN  /\ Accepts(w, "rides")
            /\ http_request_counter' = http_request_counter + 1
            /\ IF InvalidRideId(ride_id)
               THEN Raises(w, m, req, <<>>,
                           Exc("ValidationError", "Ride ID must be a positive integer", NoArg),
                           {"ValidationError"})
               ELSE Calls(w, m, "delete_ride:delete_ride", req, <<>>,
                          RideCall("db/write", "delete_ride", ride_id))
            /\ UNCHANGED service

\* a write that is sent again when the first attempt times out
delete_ride_write_Retries(w) ==
    \E reply \in DbStatusReplies :
        LET req == inflight[w].req
            calls == WithReply(inflight[w].calls, reply)
        IN  /\ inflight[w].pc = "delete_ride:delete_ride"
            /\ IF reply.state = "raised" /\ Len(calls) = 1
               THEN Calls(w, metrics, "delete_ride:delete_ride", req, calls,
                          RideCall("db/write", "delete_ride", req.ride_id))
               ELSE IF reply.state = "raised" \/ DatabaseFailed(reply)
               THEN Raises(w, metrics, req, calls,
                           Exc("InternalServerError", "Failed to delete ride", NoArg),
                           {"ValidationError"})
               ELSE Returns(w, metrics, req, calls, NoData,
                            Text("Ride deleted successfully"), 200)
            /\ UNCHANGED <<service, http_request_counter>>

\* main_rides.delete_ride, from the reply of the write
delete_ride_write(w) ==
    \E reply \in DbStatusReplies :
        LET req == inflight[w].req
            calls == WithReply(inflight[w].calls, reply)
        IN  /\ inflight[w].pc = "delete_ride:delete_ride"
            /\ IF reply.state = "raised"
               THEN Raises(w, metrics, req, calls, Exc("RequestException", "", NoArg),
                           {"ValidationError"})
               ELSE IF DatabaseFailed(reply)
               THEN Raises(w, metrics, req, calls,
                           Exc("InternalServerError", "Failed to delete ride", NoArg),
                           {"ValidationError"})
               ELSE Returns(w, metrics, req, calls, NoData,
                            Text("Ride deleted successfully"), 200)
            /\ UNCHANGED <<service, http_request_counter>>

RidesNext(w) ==
    \/ add_ride(w)
    \/ add_ride_users(w)
    \/ add_ride_write(w)
    \/ list_upcoming_rides(w)
    \/ list_upcoming_rides_read(w)
    \/ get_ride(w)
    \/ get_ride_read(w)
    \/ get_ride_count(w)
    \/ get_ride_count_read(w)
    \/ join_ride(w)
    \/ join_ride_users(w)
    \/ join_ride_write(w)
    \/ delete_ride(w)
    \/ delete_ride_write(w)

\* @app.after_request: the response goes out and the worker is free again
after_request_handler(w) ==
    /\ inflight[w].pc = "after_request"
    /\ inflight' = [inflight EXCEPT ![w] = Idle]
    /\ resp' = NoResp
    /\ previous' = [handler |-> resp.req.handler, ride_id |-> resp.req.ride_id]
    /\ UNCHANGED <<service, http_request_counter, metrics>>

UsersNext(w) ==
    \/ add_user(w)
    \/ add_user_read(w)
    \/ add_user_write(w)
    \/ delete_user(w)
    \/ delete_user_read(w)
    \/ delete_user_write(w)
    \/ list_users(w)
    \/ list_users_read(w)

CountersNext(w) ==
    \/ get_request_count(w)
    \/ reset_request_count(w)
    \/ health_check(w)
    \/ get_metrics(w)
    \/ root(w)
    \/ no_route(w)
    \/ after_request_handler(w)

Next ==
    /\ \E w \in Workers : UsersNext(w) \/ RidesNext(w) \/ CountersNext(w)
    /\ UNCHANGED <<argument, returned, database, answered>>

Spec == Init /\ [][Next]_vars

\* ===================================================== the validators alone
\* utils/validators.py is not called by the handlers; its functions are
\* applied here to values of every JSON type.
ArgumentChars == {"a", "Z", "9", "_", "@", "-", " ", "\n"}
Texts(n) == UNION { [1..k -> ArgumentChars] : k \in 0..n }
Repeat(c, n) == [i \in 1..n |-> c]

UsernameArguments ==
    { JStr(t) : t \in Texts(MaxArgLen) }
    \cup { JStr(Repeat("a", MAX_USERNAME_LEN)), JStr(Repeat("a", MAX_USERNAME_LEN + 1)),
           JStr(Repeat("a", MAX_USERNAME_LEN - 1) \o <<"\n">>),
           JStr(Repeat("a", MAX_USERNAME_LEN) \o <<"\n">>),
           JStr(<<"u", "s", "e", "r", "1", "2", "3">>),
           JStr(<<"u", "s", "e", "r", "@", "1", "2", "3">>),
           JNum(5), JNum(0), JNull, JAbsent }

PasswordArguments ==
    { JStr(Repeat("f", PASSWORD_LEN - 1) \o t) : t \in Texts(MaxArgLen) }
    \cup { JStr(Hex40), JStr(Repeat("F", PASSWORD_LEN - 2)), JStr(Repeat("g", PASSWORD_LEN)),
           JStr(<<>>), JNum(5), JNum(0), JNull, JAbsent }

\* Rides/utils/validators.validate_source_destination with a location test
\* that turns away the lower bound itself
validate_source_destination_AboveMin(value, location_type) ==
    IF value.t # "num"
    THEN Raise(Exc("ValidationError", "{} must be an integer", JStr(location_type)))
         @@ [location |-> NoLocation]
    ELSE IF value.n <= MIN_SOURCE_DESTINATION \/ value.n > MAX_SOURCE_DESTINATION
    THEN Raise(Exc("InvalidLocationError", "Invalid {}: {}. Must be between {} and {}", value))
         @@ [location |-> [location_type |-> location_type, value |-> value.n,
                           min_val |-> MIN_SOURCE_DESTINATION,
                           max_val |-> MAX_SOURCE_DESTINATION]]
    ELSE Ok(value) @@ [location |-> NoLocation]

\* Rides/utils/validators.validate_source_destination: [ok, value, exc, location]
validate_source_destination(value, location_type) ==
    IF value.t # "num"
    THEN Raise(Exc("ValidationError", "{} must be an integer", JStr(location_type)))
         @@ [location |-> NoLocation]
    ELSE IF value.n < MIN_SOURCE_DESTINATION \/ value.n > MAX_SOURCE_DESTINATION
    THEN Raise(Exc("InvalidLocationError", "Invalid {}: {}. Must be between {} and {}", value))
         @@ [location |-> [location_type |-> location_type, value |-> value.n,
                           min_val |-> MIN_SOURCE_DESTINATION,
                           max_val |-> MAX_SOURCE_DESTINATION]]
    ELSE Ok(value) @@ [location |-> NoLocation]

LocationArguments ==
    { JNum(n) : n \in {-1, 0, 1, 2, 100, 197, 198, 199, 200} }
    \cup { JStr(t) : t \in {<<"5">>, <<"1", "9", "8">>, <<>>, <<"a">>} }
    \cup { JNull, JAbsent }

\* Users/utils/validators.validate_request_body (Rides/utils/validators.py has
\* the same function): [ok, body, exc, missing], `missing` being the names
\* joined into the message
validate_request_body(body, required_fields) ==
    LET raise(fmt, missing) ==
            [ok |-> FALSE, body |-> JNullBody,
             exc |-> Exc("ValidationError", fmt, NoArg), missing |-> missing]
        missing_fields ==
            SelectSeq(required_fields,
                      LAMBDA field : \/ Contains(body, field) = "no"
                                     \/ body.fields[field].t = "null")
    IN  IF Falsy(body) THEN raise("Request body is required", <<>>)
        ELSE IF body.kind # "obj" THEN raise("Request body must be a JSON object", <<>>)
        ELSE IF missing_fields # <<>>
        THEN raise("Missing required fields: {}", missing_fields)
        ELSE [ok |-> TRUE, body |-> body, exc |-> Exc("none", "", NoArg), missing |-> <<>>]

\* user_requests.CreateUserRequest.from_dict, with the validate() that
\* __post_init__ runs: [ok, username, password, exc, missing]; in
\* "Invalid user data: {}" the {} is the text of the validator's error
from_dict(data) ==
    LET raise(fmt, missing) ==
            [ok |-> FALSE, username |-> JAbsent, password |-> JAbsent,
             exc |-> Exc("ValidationError", fmt, NoArg), missing |-> missing]
        missing_fields ==
            SelectSeq(<<"username", "password">>, LAMBDA field : Contains(data, field) = "no")
        username == validate_username(data.fields["username"])
        password == validate_password(data.fields["password"])
    IN  IF data.kind # "obj" THEN raise("Request data must be a dictionary", <<>>)
        ELSE IF missing_fields # <<>>
        THEN raise("Missing required fields: {}", missing_fields)
        ELSE IF ~username.ok \/ ~password.ok THEN raise("Invalid user data: {}", <<>>)
        ELSE [ok |-> TRUE, username |-> username.value, password |-> password.value,
              exc |-> Exc("none", "", NoArg), missing |-> <<>>]

\* user_requests.CreateUserRequest.to_dict
to_dict(self) ==
    JObject([NoFields EXCEPT !["username"] = self.username, !["password"] = self.password])

FromDictArguments ==
    { JObject([NoFields EXCEPT !["username"] = u, !["password"] = p]) :
        u \in UsernameArguments,
        p \in {JStr(Hex40), JStr(Hex40 \o <<"\n">>), JStr(Al), JNull, JAbsent} }
    \cup { JObject([NoFields EXCEPT !["username"] = JStr(Al), !["password"] = JStr(Hex40),
                                    !["source"] = JNum(5)]),
           JArray(<<"username", "password">>), JNumber(7), JNullBody }

RequestBodyArguments ==
    { JObject([NoFields EXCEPT !["username"] = u, !["password"] = p]) :
        u \in {JStr(Al), JStr(<<>>), JNull, JAbsent}, p \in {JStr(Hex40), JNum(0), JNull, JAbsent} }
    \cup { JArray(<<"username">>), JArray(<<>>), JNumber(7), JNumber(0), JNullBody }

RequiredFields ==
    { <<"username", "password">>, <<"password", "username">>, <<"username">>, <<>> }

Returned(r) ==
    [called |-> TRUE, ok |-> r.ok, value |-> r.value, exc |-> r.exc, location |-> NoLocation,
     body |-> JNullBody, missing |-> <<>>]

InitValidators ==
    /\ service \in {"users", "rides"}
    /\ http_request_counter = 0
    /\ metrics = [total_requests |-> 0, successful_requests |-> 0, failed_requests |-> 0]
    /\ inflight = [w \in Workers |-> Idle]
    /\ resp = NoResp
    /\ previous = [handler |-> "none", ride_id |-> 0]
    /\ argument \in
          { Argument("validate_username", v, JNullBody, <<>>) : v \in UsernameArguments }
          \cup { Argument("validate_password", v, JNullBody, <<>>) : v \in PasswordArguments }
          \cup { Argument("validate_source_destination", v, JNullBody, <<name>>) :
                   v \in LocationArguments, name \in {"source", "destination"} }
          \cup { Argument("validate_request_body", JAbsent, body, required) :
                   body \in RequestBodyArguments, required \in RequiredFields }
          \cup { Argument("from_dict", JAbsent, body, <<>>) : body \in FromDictArguments }
    /\ returned = NotCalled
    /\ database = {}
    /\ answered = 0

\* validate_username(argument)
call_validate_username ==
    /\ argument.fn = "validate_username"
    /\ ~returned.called
    /\ returned' = Returned(validate_username(argument.v))
    /\ UNCHANGED <<service, http_request_counter, metrics, inflight, resp, previous, argument,
                   database, answered>>

\* validate_password(argument)
call_validate_password ==
    /\ argument.fn = "validate_password"
    /\ ~returned.called
    /\ returned' = Returned(validate_password(argument.v))
    /\ UNCHANGED <<service, http_request_counter, metrics, inflight, resp, previous, argument,
                   database, answered>>

\* validate_source_destination(argument, location_type)
call_validate_source_destination ==
    /\ argument.fn = "validate_source_destination"
    /\ ~returned.called
    /\ returned' = [Returned(validate_source_destination(argument.v, argument.names[1]))
                      EXCEPT !.location =
                          validate_source_destination(argument.v, argument.names[1]).location]
    /\ UNCHANGED <<service, http_request_counter, metrics, inflight, resp, previous, argument,
                   database, answered>>

\* validate_request_body(argument.body, argument.names)
call_validate_request_body ==
    /\ argument.fn = "validate_request_body"
    /\ ~returned.called
    /\ LET r == validate_request_body(argument.body, argument.names)
       IN  returned' = [NotCalled EXCEPT !.called = TRUE, !.ok = r.ok, !.exc = r.exc,
                                        !.body = r.body, !.missing = r.missing]
    /\ UNCHANGED <<service, http_request_counter, metrics, inflight, resp, previous, argument,
                   database, answered>>

\* CreateUserRequest.from_dict(argument.body).to_dict()
call_from_dict ==
    /\ argument.fn = "from_dict"
    /\ ~returned.called
    /\ LET r == from_dict(argument.body)
       IN  returned' = [NotCalled EXCEPT !.called = TRUE, !.ok = r.ok, !.exc = r.exc,
                                        !.missing = r.missing,
                                        !.body = IF r.ok THEN to_dict(r) ELSE JNullBody]
    /\ UNCHANGED <<service, http_request_counter, metrics, inflight, resp, previous, argument,
                   database, answered>>

NextValidators ==
    \/ call_validate_username
    \/ call_validate_password
    \/ call_validate_source_destination
    \/ call_validate_request_body
    \/ call_from_dict

SpecValidators == InitValidators /\ [][NextValidators]_vars

\* ====================================================== concurrent requests
\* gevent (monkey.patch_all, WSGIServer) serves each request in a greenlet of
\* its own and switches greenlets only where one blocks, which in a handler is
\* a call to the database: what a handler does between two calls, the updates
\* of the counters included, is one step.
Greenlets == {"g1", "g2"}

\* The database of the Users service: get_user answers 200 for a user that has
\* been added and 404 otherwise, add_user stores the user and answers 200.
get_user_reply(username) ==
    IF username \in database THEN HttpReply(200, JsonObj(1), <<>>)
    ELSE HttpReply(404, UnparseableJson, <<>>)

InitConcurrent ==
    /\ service = "users"
    /\ http_request_counter = 0
    /\ metrics = [total_requests |-> 0, successful_requests |-> 0, failed_requests |-> 0]
    /\ inflight = [g \in Greenlets |-> Idle]
    /\ resp = NoResp
    /\ previous = [handler |-> "none", ride_id |-> 0]
    /\ argument = NoArgument
    /\ returned = NotCalled
    /\ database = {}
    /\ answered = 0

\* a PUT /api/v1/users that writes back the counter as it was when no other
\* request was in flight
put_user_StaleCount(g) ==
    \E u \in {Al, Bo} :
        LET req == [Request("add_user", "PUT") EXCEPT
                       !.ctype = "application/json", !.body = UserBody(JStr(u), JStr(Hex40))]
        IN  /\ Accepts(g, "users")
            /\ http_request_counter' = answered + 1
            /\ add_user_begin(g, req)
            /\ UNCHANGED <<service, database, answered>>

\* PUT /api/v1/users with a valid body arrives at an idle greenlet
put_user(g) ==
    \E u \in {Al, Bo} :
        /\ add_user_arrives(g, [Request("add_user", "PUT") EXCEPT
                                   !.ctype = "application/json",
                                   !.body = UserBody(JStr(u), JStr(Hex40))])
        /\ UNCHANGED <<database, answered>>

\* the database answers the get_user read of a greenlet
get_user_answered(g) ==
    /\ inflight[g].pc = "add_user:get_user"
    /\ add_user_after_read(g, get_user_reply(inflight[g].calls[Len(inflight[g].calls)].username.s))
    /\ UNCHANGED <<database, answered>>

\* the database stores the user and answers the add_user write of a greenlet
add_user_answered(g) ==
    /\ inflight[g].pc = "add_user:add_user"
    /\ add_user_after_write(g, HttpReply(200, JsonObj(1), <<>>))
    /\ database' = database \cup {inflight[g].calls[Len(inflight[g].calls)].username.s}
    /\ UNCHANGED answered

\* the response of a greenlet leaves the process
response_sent(g) ==
    /\ after_request_handler(g)
    /\ answered' = answered + 1
    /\ UNCHANGED database

NextConcurrent ==
    /\ \E g \in Greenlets :
          \/ put_user(g)
          \/ get_user_answered(g)
          \/ add_user_answered(g)
          \/ response_sent(g)
    /\ UNCHANGED <<argument, returned>>

SpecConcurrent == InitConcurrent /\ [][NextConcurrent]_vars

\* every ready greenlet is run by gevent's hub and every database call is
\* answered within the timeout
FairSpecConcurrent == SpecConcurrent /\ WF_vars(NextConcurrent)

\* ================================================================== claims
\* A response has just been returned by the handler `handler`.
Answered(handler) == resp.req.handler = handler

\* the calls of the answered request that carry `action`
CallsOf(action) == {i \in 1..Len(resp.calls) : resp.calls[i].action = action}

Replied(call) == call.reply.state = "replied"

SuccessfulBy(n) ==
    metrics.successful_requests = resp.before.metrics.successful_requests + n
FailedBy(n) == metrics.failed_requests = resp.before.metrics.failed_requests + n

\* the format rules of the data model, for a JSON value
UsernameRule(v) ==
    v.t = "str" /\ Len(v.s) >= 1 /\ Len(v.s) <= 50 /\ AllIn(v.s, WordChars)
PasswordRule(v) == v.t = "str" /\ Len(v.s) = 40 /\ AllIn(v.s, HexChars)

\* a PUT /api/v1/users request with a valid body
ValidUserRequest(req) ==
    /\ req.handler = "add_user"
    /\ req.ctype = "application/json"
    /\ req.body.kind = "obj"
    /\ UsernameRule(req.body.fields["username"])
    /\ PasswordRule(req.body.fields["password"])

\* C1, as stated: DELETE /api/v1/_count directly followed by GET /api/v1/_count
\* makes the GET answer 200 with data [0].
C1_CountAfterResetIsZero ==
    (Answered("get_request_count") /\ resp.before.previous.handler = "reset_request_count")
        => (resp.status = 200 /\ resp.data = CountData(0))

\* C1, amended: the GET after the reset is itself counted by
\* before_request_handler, so it answers 200 with data [1].
C1_CountAfterResetIsOne ==
    (Answered("get_request_count") /\ resp.before.previous.handler = "reset_request_count")
        => (resp.status = 200 /\ resp.data = CountData(1))

C1_Witness ==
    Answered("get_request_count") /\ resp.before.previous.handler = "reset_request_count"

\* C2: a PUT or POST (Users) or POST (Rides) whose Content-Type is not
\* application/json is answered 400 with a message mentioning Content-Type,
\* with no external call and total_requests unchanged.
C2_ContentTypeRejectedWith400 ==
    (/\ resp.req.method \in ContentCheckedMethods[service]
     /\ resp.req.ctype # "application/json")
        => /\ resp.status = 400
           /\ resp.message.fmt = "Content-Type must be application/json"
           /\ resp.calls = <<>>
           /\ metrics.total_requests = resp.before.metrics.total_requests

\* C3: PUT /api/v1/users with a valid body, a non-200 answer to get_user and a
\* 200 answer to add_user: 201 "User created successfully", successful_requests
\* up by one, failed_requests unchanged, exactly one get_user read followed by
\* exactly one add_user write with the username and password of the body.
C3_UserCreated ==
    (/\ ValidUserRequest(resp.req)
     /\ \A i \in CallsOf("get_user") : Replied(resp.calls[i]) /\ resp.calls[i].reply.status # 200
     /\ \A i \in CallsOf("add_user") : Replied(resp.calls[i]) /\ resp.calls[i].reply.status = 200)
        => /\ resp.status = 201
           /\ resp.envelope = "success"
           /\ resp.message = Text("User created successfully")
           /\ SuccessfulBy(1) /\ FailedBy(0)
           /\ Len(resp.calls) = 2
           /\ resp.calls[1].target = "db/read" /\ resp.calls[1].action = "get_user"
           /\ resp.calls[1].username = resp.req.body.fields["username"]
           /\ resp.calls[2].target = "db/write" /\ resp.calls[2].action = "add_user"
           /\ resp.calls[2].username = resp.req.body.fields["username"]
           /\ resp.calls[2].password = resp.req.body.fields["password"]

C3_Witness ==
    /\ ValidUserRequest(resp.req)
    /\ resp.status = 201
    /\ Len(resp.calls) = 2
    /\ resp.calls[1].reply.status = 404
    /\ resp.calls[2].reply.status = 200

\* C4: PUT /api/v1/users with a valid body and a 200 answer to get_user: 400
\* with a message containing "already exists", failed_requests up by one, and
\* no add_user write.
C4_UserAlreadyExists ==
    (/\ ValidUserRequest(resp.req)
     /\ \E i \in CallsOf("get_user") : Replied(resp.calls[i]) /\ resp.calls[i].reply.status = 200)
        => /\ resp.status = 400
           /\ resp.envelope = "error"
           /\ resp.message.fmt = "User {} already exists"
           /\ FailedBy(1) /\ SuccessfulBy(0)
           /\ CallsOf("add_user") = {}
           /\ \A i \in 1..Len(resp.calls) : resp.calls[i].target # "db/write"

C4_Witness ==
    /\ ValidUserRequest(resp.req)
    /\ resp.status = 400
    /\ Len(resp.calls) = 1
    /\ resp.calls[1].action = "get_user"
    /\ resp.calls[1].reply.status = 200

\* C5: PUT /api/v1/users rejects with 400, before any database call, every
\* JSON body whose username or password breaks its format rule; a database
\* call is issued only for bodies where both fields satisfy the rules.
C5_BadFormatRejectedBeforeDatabase ==
    /\ (/\ Answered("add_user")
        /\ is_json(resp.req.ctype)
        /\ resp.req.body.kind = "obj"
        /\ \/ ~UsernameRule(resp.req.body.fields["username"])
           \/ ~PasswordRule(resp.req.body.fields["password"]))
          => (resp.status = 400 /\ resp.calls = <<>>)
    /\ \A w \in Workers :
          (inflight[w].req.handler = "add_user" /\ inflight[w].calls # <<>>)
              => /\ inflight[w].req.body.kind = "obj"
                 /\ UsernameRule(inflight[w].req.body.fields["username"])
                 /\ PasswordRule(inflight[w].req.body.fields["password"])

\* C6: DELETE /api/v1/users/{username}: a non-200 answer to get_user gives 400
\* "not found" and no delete_user write; a 200 answer is followed by exactly
\* one delete_user write, and the response is 200 "User deleted successfully"
\* if that write answers 200 and 500 otherwise.
C6_DeleteUser ==
    (Answered("delete_user") /\ resp.calls # <<>> /\ Replied(resp.calls[1]))
        => /\ resp.calls[1].action = "get_user"
           /\ resp.calls[1].reply.status # 200
                => /\ resp.status = 400
                   /\ resp.message.fmt = "User {} not found"
                   /\ Len(resp.calls) = 1
           /\ resp.calls[1].reply.status = 200
                => /\ Len(resp.calls) = 2
                   /\ resp.calls[2].target = "db/write"
                   /\ resp.calls[2].action = "delete_user"
                   /\ resp.calls[2].username = JStr(resp.req.username)
                   /\ IF Replied(resp.calls[2]) /\ resp.calls[2].reply.status = 200
                      THEN /\ resp.status = 200
                           /\ resp.message = Text("User deleted successfully")
                      ELSE resp.status = 500

C6_Witness ==
    /\ Answered("delete_user")
    /\ Len(resp.calls) = 2
    /\ resp.calls[2].reply.status = 500
    /\ resp.status = 500

\* C7: GET /api/v1/rides/{id} with id > 0 answers 204 for every non-200 status
\* of the get_ride read (5xx included) and counts the request as successful,
\* not failed; a 200 read carrying a JSON body is answered 200 with that body
\* as data.
C7_GetRide ==
    (Answered("get_ride") /\ resp.req.ride_id > 0 /\ resp.calls # <<>> /\ Replied(resp.calls[1]))
        => /\ resp.calls[1].action = "get_ride"
           /\ resp.calls[1].reply.status # 200
                => /\ resp.status = 204
                   /\ SuccessfulBy(1) /\ FailedBy(0)
           /\ (resp.calls[1].reply.status = 200 /\ resp.calls[1].reply.json.ok)
                => /\ resp.status = 200
                   /\ resp.data.k = "json"
                   /\ resp.data.json = resp.calls[1].reply.json

C7_Witness ==
    /\ Answered("get_ride")
    /\ resp.calls # <<>>
    /\ resp.calls[1].reply.status = 500
    /\ resp.status = 204

\* true of a query argument that is present and parses as an integer in 1..198
LocationArgument(q) ==
    q.present /\ ParseInt(q.s).ok /\ ParseInt(q.s).n >= 1 /\ ParseInt(q.s).n <= 198

\* C8: GET /api/v1/rides with valid source and destination: a 200 read with an
\* empty list gives 204 with neither data nor message and counts as
\* successful; a non-empty list gives 200 with the list as data.
C8_ListUpcomingRides ==
    (/\ Answered("list_upcoming_rides")
     /\ LocationArgument(resp.req.source) /\ LocationArgument(resp.req.destination)
     /\ resp.calls # <<>> /\ Replied(resp.calls[1])
     /\ resp.calls[1].reply.status = 200
     /\ resp.calls[1].reply.json.ok /\ resp.calls[1].reply.json.t = "list")
        => IF resp.calls[1].reply.json.items = <<>>
           THEN /\ resp.status = 204
                /\ resp.envelope = "success"
                /\ resp.data = NoData /\ resp.message = NoMsg
                /\ SuccessfulBy(1) /\ FailedBy(0)
           ELSE /\ resp.status = 200
                /\ resp.data.k = "json"
                /\ resp.data.json = resp.calls[1].reply.json

C8_Witness ==
    /\ Answered("list_upcoming_rides")
    /\ resp.status = 204
    /\ resp.calls # <<>>
    /\ resp.calls[1].reply.json = JsonList(<<>>)

\* C9: GET /api/v1/rides issues the list_upcoming_ride read if and only if both
\* query parameters are present and parse as integers in 1..198; otherwise it
\* answers 400, makes no database call and increments failed_requests.
C9_ReadOnlyForValidLocations ==
    /\ Answered("list_upcoming_rides")
          => IF LocationArgument(resp.req.source) /\ LocationArgument(resp.req.destination)
             THEN /\ Len(resp.calls) = 1
                  /\ resp.calls[1].target = "db/read"
                  /\ resp.calls[1].action = "list_upcoming_ride"
             ELSE /\ resp.status = 400
                  /\ resp.calls = <<>>
                  /\ FailedBy(1)
    /\ \A w \in Workers :
          (inflight[w].req.handler = "list_upcoming_rides" /\ inflight[w].calls # <<>>)
              => /\ LocationArgument(inflight[w].req.source)
                 /\ LocationArgument(inflight[w].req.destination)

C9_Witness ==
    /\ Answered("list_upcoming_rides")
    /\ resp.req.source = QArg(<<"1", "9", "9">>)
    /\ resp.req.destination = QArg(<<"1", "0">>)
    /\ resp.status = 400

\* the username an add_ride or join_ride request supplies
SuppliedUsername(req) ==
    IF req.handler = "add_ride" THEN req.body.fields["created_by"]
    ELSE req.body.fields["username"]

\* the calls made so far pass the existence check before any database write
WriteAfterPassedCheck(req, calls) ==
    \A i \in 1..Len(calls) :
        calls[i].target = "db/write"
            => /\ i = 2
               /\ calls[1].target = "users"
               /\ Replied(calls[1])
               /\ SuppliedUsername(req).t = "str"
               /\ IsSubstring(SuppliedUsername(req).s, calls[1].reply.text)
               /\ calls[i].action = (IF req.handler = "add_ride" THEN "add_ride" ELSE "join_ride")
               /\ calls[i].username = SuppliedUsername(req)

\* C10: POST /api/v1/rides and POST /api/v1/rides/{id} query the Users service
\* before any database write; a supplied username (a string) that is not a
\* substring of the raw Users response text is answered 400 with no database
\* write, so a write is only ever issued after a passed existence check.
C10_ExistenceCheckBeforeWrite ==
    /\ \A w \in Workers :
          inflight[w].req.handler \in {"add_ride", "join_ride"}
              => WriteAfterPassedCheck(inflight[w].req, inflight[w].calls)
    /\ (/\ resp.req.handler \in {"add_ride", "join_ride"}
        /\ resp.calls # <<>>
        /\ Replied(resp.calls[1])
        /\ SuppliedUsername(resp.req).t = "str"
        /\ ~IsSubstring(SuppliedUsername(resp.req).s, resp.calls[1].reply.text))
          => /\ resp.status = 400
             /\ Len(resp.calls) = 1
             /\ resp.calls[1].target = "users"

C10_Witness ==
    /\ Answered("join_ride")
    /\ SuppliedUsername(resp.req) = JStr(Bo)
    /\ resp.calls # <<>>
    /\ resp.calls[1].reply.text = TextUsersAl
    /\ resp.status = 400

\* text of the form DD-MM-YYYY:SS-MM-HH
TimestampForm(s) ==
    /\ Len(s) = 19
    /\ \A i \in {3, 6, 14, 17} : s[i] = "-"
    /\ s[11] = ":"
    /\ \A i \in (1..19) \ {3, 6, 11, 14, 17} : s[i] \in Digits

\* the writes among the calls of a POST /api/v1/rides carry the validated
\* values of its body and its timestamp re-encoded
AddRideWriteFaithful(req, calls) ==
    \A i \in 1..Len(calls) :
        calls[i].target = "db/write"
            => /\ calls[i].action = "add_ride"
               /\ calls[i].username = req.body.fields["created_by"]
               /\ calls[i].source = JNum(ToInt(req.body.fields["source"]).n)
               /\ calls[i].destination = JNum(ToInt(req.body.fields["destination"]).n)
               /\ TimestampForm(calls[i].timestamp)
               /\ strptime(calls[i].timestamp) = strptime(req.body.fields["timestamp"].s)
               /\ \A j \in 1..Len(calls) : calls[j].target = "db/write" => j = i

\* C11: POST /api/v1/rides with a valid payload and a passed existence check
\* issues exactly one add_ride write carrying the validated created_by, source
\* and destination and the timestamp re-encoded as DD-MM-YYYY:SS-MM-HH with the
\* same day, month, year, seconds, minutes and hours; a 200 reply to the write
\* (with a JSON body) gives 201 with that body as data.
C11_AddRideWrite ==
    /\ \A w \in Workers :
          inflight[w].req.handler = "add_ride"
              => AddRideWriteFaithful(inflight[w].req, inflight[w].calls)
    /\ Answered("add_ride") => AddRideWriteFaithful(resp.req, resp.calls)
    /\ (/\ Answered("add_ride")
        /\ CreateRideRequests(resp.req.body).ok
        /\ resp.calls # <<>>
        /\ Replied(resp.calls[1])
        /\ UserFound(resp.req.body.fields["created_by"], resp.calls[1].reply) = "yes")
          => /\ Len(resp.calls) = 2
             /\ resp.calls[2].target = "db/write"
             /\ (/\ Replied(resp.calls[2])
                 /\ resp.calls[2].reply.status = 200
                 /\ resp.calls[2].reply.json.ok)
                   => /\ resp.status = 201
                      /\ resp.data.k = "json"
                      /\ resp.data.json = resp.calls[2].reply.json

\* C12: DELETE /api/v1/rides/{id} (id > 0) against a database that answers
\* 200: every such request, a repetition of the one before included, is
\* answered 200 after exactly one delete_ride write and no read.
C12_DeleteRideRepeatable ==
    (/\ Answered("delete_ride")
     /\ resp.req.ride_id > 0
     /\ \A i \in 1..Len(resp.calls) :
            Replied(resp.calls[i]) /\ resp.calls[i].reply.status = 200)
        => /\ resp.status = 200
           /\ Len(resp.calls) = 1
           /\ resp.calls[1].target = "db/write"
           /\ resp.calls[1].action = "delete_ride"
           /\ resp.calls[1].ride_id = resp.req.ride_id

\* the same DELETE a second time, the first having been answered 200
C12_Witness ==
    /\ Answered("delete_ride")
    /\ resp.req.ride_id = 42
    /\ resp.before.previous = [handler |-> "delete_ride", ride_id |-> 42]
    /\ metrics = [total_requests |-> 2, successful_requests |-> 2, failed_requests |-> 0]
    /\ resp.status = 200
    /\ Len(resp.calls) = 1
    /\ resp.calls[1].reply.status = 200

\* the database calls whose status alone decides between success and 500
StatusCheckedWrites == {"add_user", "delete_user", "add_ride", "join_ride", "delete_ride"}
StatusCheckedReads == {"list_users", "list_upcoming_ride", "num_ride"}

\* C13: for the add_user, delete_user, add_ride, join_ride and delete_ride
\* writes and the list_users, list_upcoming_ride and num_ride reads, a non-200
\* status gives 500 "Internal server error" and failed_requests up by exactly
\* one; a 200 status gives no 500 by itself, that is, unless the body the
\* handler goes on to read is not JSON (add_ride, num_ride) or not a JSON list
\* or object (list_users, list_upcoming_ride).
C13_DatabaseStatus ==
    \A i \in 1..Len(resp.calls) :
        LET call == resp.calls[i]
        IN  (/\ (\/ call.target = "db/write" /\ call.action \in StatusCheckedWrites
                 \/ call.target = "db/read" /\ call.action \in StatusCheckedReads)
             /\ Replied(call))
                => /\ call.reply.status # 200
                      => /\ resp.status = 500
                         /\ resp.envelope = "error"
                         /\ resp.message = InternalServerErrorMsg
                         /\ FailedBy(1) /\ SuccessfulBy(0)
                   /\ (/\ call.reply.status = 200
                       /\ \/ call.action \in StatusCheckedWrites \ {"add_ride"}
                          \/ call.action \in {"add_ride", "num_ride"} /\ call.reply.json.ok
                          \/ call.reply.json.ok /\ JsonHasLen(call.reply.json))
                      => resp.status # 500

C13_Witness ==
    /\ Answered("get_ride_count")
    /\ Len(resp.calls) = 1
    /\ resp.calls[1].action = "num_ride"
    /\ resp.calls[1].reply.status = 404
    /\ resp.status = 500

\* no external call is repeated, and a call that raised is the last one
NoRetry(calls) ==
    /\ \A i, j \in 1..Len(calls) :
          (calls[i].target = calls[j].target) => i = j
    /\ \A i \in 1..Len(calls) : calls[i].reply.state = "raised" => i = Len(calls)

\* C14: within one request each external call (Users existence check,
\* database read, database write) is issued at most once; when a call times
\* out or the connection fails the request is answered 500, failed_requests
\* goes up by one and no further external call is issued.
C14_NoRetry ==
    /\ \A w \in Workers : NoRetry(inflight[w].calls)
    /\ NoRetry(resp.calls)
    /\ (\E i \in 1..Len(resp.calls) : resp.calls[i].reply.state = "raised")
          => /\ resp.status = 500
             /\ resp.message = InternalServerErrorMsg
             /\ FailedBy(1) /\ SuccessfulBy(0)

\* the add_ride write times out after a passed existence check
C14_Witness ==
    /\ Answered("add_ride")
    /\ Len(resp.calls) = 2
    /\ Replied(resp.calls[1])
    /\ resp.calls[2].reply.state = "raised"
    /\ resp.status = 500

\* the body of a response: the envelope and its fields
Body(r) ==
    [envelope |-> r.envelope, data |-> r.data, message |-> r.message,
     status_code |-> r.status, code |-> r.code, details |-> r.details]

\* {error: {message: "Internal server error", status_code: 500}}
OpaqueBody ==
    [envelope |-> "error", data |-> NoData, message |-> InternalServerErrorMsg,
     status_code |-> 500, code |-> "absent", details |-> "absent"]

\* C15: every response with status 500 has the same body, {error: {message:
\* "Internal server error", status_code: 500}} with no code or details field,
\* whatever exception or external reply led to it.
C15_Opaque500 == resp.status = 500 => Body(resp) = OpaqueBody

\* two requests in a row answered 500: an unknown route, then list_users after
\* a database reply carrying an error of its own
C15_Witness ==
    /\ resp.status = 500
    /\ Answered("list_users")
    /\ Len(resp.calls) = 1
    /\ resp.calls[1].reply.status = 500
    /\ resp.before.previous.handler = "no_route"

\* a PUT /api/v1/users body that fails validation
InvalidUserBody(body) ==
    \/ body.kind # "obj"
    \/ ~UsernameRule(body.fields["username"])
    \/ ~PasswordRule(body.fields["password"])

\* a POST /api/v1/rides body that fails validation
InvalidRideBody(body) ==
    \/ body.kind # "obj"
    \/ body.fields["created_by"].t # "str"
    \/ ~validateSource(body.fields["source"]).ok
    \/ ~validateDestination(body.fields["destination"]).ok
    \/ ~validateTimestamp(body.fields["timestamp"]).ok

\* C16: PUT /api/v1/users and POST /api/v1/rides with a JSON content type
\* answer every body that fails validation (a missing field, a field of the
\* wrong JSON type, an array for a body, a badly formatted value) with a 400
\* error envelope, never 500, and issue no database write.
C16_InvalidBodyIs400 ==
    (/\ is_json(resp.req.ctype)
     /\ \/ Answered("add_user") /\ InvalidUserBody(resp.req.body)
        \/ Answered("add_ride") /\ InvalidRideBody(resp.req.body))
        => /\ resp.status = 400
           /\ resp.envelope = "error"
           /\ \A i \in 1..Len(resp.calls) : resp.calls[i].target # "db/write"

\* a request arrives at worker w in this step
Arrives(w) == inflight[w].pc = "idle" /\ inflight'[w].pc # "idle"

\* C17: every inbound request, whatever its outcome, increments
\* http_request_counter exactly once, on arrival, except that DELETE
\* /api/v1/_count leaves it 0; no other step changes it; GET /api/v1/_count
\* answers 200 with the current value as a one-element list.
C17_CounterCountsEveryRequest ==
    [][ /\ \A w \in Workers :
              Arrives(w) =>
                  IF inflight'[w].req.handler = "reset_request_count"
                  THEN http_request_counter' = 0
                  ELSE http_request_counter' = http_request_counter + 1
        /\ (\A w \in Workers : ~Arrives(w)) => http_request_counter' = http_request_counter
        /\ resp'.req.handler = "get_request_count"
              => /\ resp'.status = 200
                 /\ resp'.data = [k |-> "count_list", n |-> http_request_counter',
                                  json |-> UnparseableJson]
      ]_vars

\* a request rejected for its Content-Type has been counted
C17_Witness ==
    /\ resp.req.method \in ContentCheckedMethods[service]
    /\ ~is_json(resp.req.ctype)
    /\ resp.status = 500
    /\ resp.before.http_request_counter = 1
    /\ http_request_counter = 2

DataHandlers ==
    {"add_user", "delete_user", "list_users", "add_ride", "list_upcoming_rides", "get_ride",
     "join_ride", "delete_ride", "get_ride_count"}

\* C18: every request that reaches a data handler moves exactly one of
\* successful_requests and failed_requests, by exactly one, for every outcome
\* of the external calls; hence total_requests = successful_requests +
\* failed_requests whenever no request is in flight.
C18_ExactlyOneOutcome ==
    /\ (resp.req.handler \in DataHandlers
        /\ (resp.req.method \in ContentCheckedMethods[service] => is_json(resp.req.ctype)))
          => \/ SuccessfulBy(1) /\ FailedBy(0)
             \/ SuccessfulBy(0) /\ FailedBy(1)
    /\ (\A w \in Workers : inflight[w].pc \in {"idle", "after_request"})
          => metrics.total_requests = metrics.successful_requests + metrics.failed_requests

\* C19: every request answered with an error status (400 or 500), on any
\* failure path, a Content-Type rejection raised in before_request_handler
\* included, increments failed_requests exactly once.
C19_ErrorsCountAsFailed == resp.status \in {400, 500} => FailedBy(1)

\* C20: validate_username(v) succeeds if and only if v is a string of 1 to 50
\* characters all in [A-Za-z0-9_], and then returns a value equal to v; every
\* other value (empty, missing, not a string, too long, with '@', '-', a
\* space, or leading or trailing whitespace or newline) raises
\* ValidationError.
C20_ValidateUsername ==
    (returned.called /\ argument.fn = "validate_username")
        => /\ returned.ok <=> UsernameRule(argument.v)
           /\ returned.ok => returned.value = argument.v
           /\ ~returned.ok => returned.exc.type = "ValidationError"

\* C21: validate_password(v) succeeds, returning v unchanged, if and only if v
\* is a string of exactly 40 characters each in [0-9a-fA-F]; any other length
\* (40 hex characters followed by one more character included) or any other
\* character raises ValidationError.
C21_ValidatePassword ==
    (returned.called /\ argument.fn = "validate_password")
        => /\ returned.ok <=> PasswordRule(argument.v)
           /\ returned.ok => returned.value = argument.v
           /\ ~returned.ok => returned.exc.type = "ValidationError"

\* C22: validate_source_destination(v, name) returns v if and only if v is an
\* integer with MIN_SOURCE_DESTINATION <= v <= MAX_SOURCE_DESTINATION (1 and
\* 198): 1 and 198 succeed, 0 and 199 raise InvalidLocationError carrying the
\* name, the value and both bounds, and every value that is not an integer
\* raises ValidationError.
C22_ValidateSourceDestination ==
    (returned.called /\ argument.fn = "validate_source_destination")
        => LET v == argument.v
               integer == v.t = "num"
               inside == integer /\ v.n >= 1 /\ v.n <= 198
           IN  /\ returned.ok <=> inside
               /\ returned.ok => returned.value = v
               /\ (integer /\ ~inside)
                     => /\ returned.exc.type = "InvalidLocationError"
                        /\ returned.location =
                              [location_type |-> argument.names[1], value |-> v.n,
                               min_val |-> 1, max_val |-> 198]
               /\ ~integer => returned.exc.type = "ValidationError"

C22_Witness ==
    /\ returned.called
    /\ argument.fn = "validate_source_destination"
    /\ argument.v = JNum(199)
    /\ argument.names = <<"destination">>
    /\ returned.exc.type = "InvalidLocationError"

\* C23: on POST /api/v1/rides a timestamp is accepted (the request goes on to
\* the existence check at the Users service) only if it both has the fixed
\* form dd-dd-dddd:dd-dd-dd and parses as a calendar timestamp; a timestamp
\* string that fails either is answered 400.
C23_TimestampAccepted ==
    (/\ Answered("add_ride")
     /\ resp.req.ctype = "application/json"
     /\ resp.req.body.kind = "obj")
        => LET ts == resp.req.body.fields["timestamp"]
               wellFormed == ts.t = "str" /\ TimestampForm(ts.s) /\ strptime(ts.s).ok
           IN  /\ resp.calls # <<>> => wellFormed
               /\ (ts.t = "str" /\ ~wellFormed) => resp.status = 400

\* C24: validate_request_body(body, required_fields) returns the body
\* unchanged when every required field is present in it with a non-null
\* value, and otherwise raises ValidationError naming every required field
\* that is missing or null (all of them, in the order required), for every
\* object body, the empty object included.
C24_ValidateRequestBody ==
    (/\ returned.called
     /\ argument.fn = "validate_request_body"
     /\ argument.body.kind = "obj")
        => LET lacking ==
                   SelectSeq(argument.names,
                             LAMBDA f : argument.body.fields[f].t \in {"absent", "null"})
           IN  /\ returned.ok <=> lacking = <<>>
               /\ returned.ok => returned.body = argument.body
               /\ ~returned.ok => /\ returned.exc.type = "ValidationError"
                                  /\ returned.exc.fmt = "Missing required fields: {}"
                                  /\ returned.missing = lacking

\* C25: for every dict d with exactly the keys username and password for
\* which CreateUserRequest.from_dict(d) succeeds, from_dict(d).to_dict()
\* equals d; and from_dict raises ValidationError "Missing required fields"
\* when either key is absent.
C25_FromDictRoundTrip ==
    (/\ returned.called
     /\ argument.fn = "from_dict"
     /\ argument.body.kind = "obj")
        => LET d == argument.body
               has(k) == d.fields[k].t # "absent"
               exactly == \A k \in FieldNames : has(k) <=> k \in {"username", "password"}
           IN  /\ (exactly /\ returned.ok) => returned.body = d
               /\ (~has("username") \/ ~has("password"))
                     => /\ ~returned.ok
                        /\ returned.exc.type = "ValidationError"
                        /\ returned.exc.fmt = "Missing required fields: {}"

\* the requests being handled: arrived and not yet answered
InFlight == Cardinality({g \in Greenlets : inflight[g].pc # "idle"})

Written(g) ==
    { inflight[g].calls[i].username :
        i \in {j \in 1..Len(inflight[g].calls) : inflight[g].calls[j].action = "add_user"} }

\* C28: against a database that answers get_user 200 exactly when the user has
\* been added and accepts every add_user with 200, two concurrent
\* PUT /api/v1/users for the same username never both issue the add_user
\* write, and so never both answer 201.
C28_CreationUniqueUnderConcurrency ==
    \A g, h \in Greenlets : g # h => Written(g) \cap Written(h) = {}

IntrospectionHandlers ==
    {"health_check", "get_metrics", "root", "get_request_count", "reset_request_count"}

\* C27: the introspection endpoints (GET /health, GET /metrics, GET /, GET and
\* DELETE /api/v1/_count) make no external call and leave total_requests,
\* successful_requests and failed_requests as they were; DELETE /api/v1/_count
\* resets http_request_counter only, so no step of the process ever decreases
\* one of the three ServiceMetrics counters.
C27_IntrospectionLeavesMetrics ==
    /\ [](resp.req.handler \in IntrospectionHandlers
            => /\ resp.calls = <<>>
               /\ resp.status = 200
               /\ metrics = resp.before.metrics)
    /\ [](Answered("reset_request_count") => http_request_counter = 0)
    /\ [][\A f \in {"total_requests", "successful_requests", "failed_requests"} :
            metrics'[f] >= metrics[f]]_vars

\* a reset made after a data request had been counted
C27_Witness ==
    /\ Answered("reset_request_count")
    /\ resp.before.http_request_counter = 1
    /\ http_request_counter = 0
    /\ metrics = [total_requests |-> 1, successful_requests |-> 1, failed_requests |-> 0]

\* the usernames in the user list a reply of the Users service carries
ListedUsers(reply) ==
    IF reply.state = "replied" /\ reply.status = 200 /\ reply.text = TextUsersAl
    THEN {Al} ELSE {}

\* C29: the Rides service issues an add_ride or join_ride write only if the
\* Users service answered successfully and its user list contains a user
\* whose username is exactly the supplied name: not a longer username that
\* contains it, nor a piece of an error envelope or of a JSON field name.
C29_WriteOnlyForListedUser ==
    \A w \in Workers :
        inflight[w].req.handler \in {"add_ride", "join_ride"}
            => \A i \in 1..Len(inflight[w].calls) :
                  inflight[w].calls[i].target = "db/write"
                      => /\ inflight[w].calls[1].target = "users"
                         /\ Replied(inflight[w].calls[1])
                         /\ inflight[w].calls[1].reply.status = 200
                         /\ SuppliedUsername(inflight[w].req).t = "str"
                         /\ SuppliedUsername(inflight[w].req).s
                               \in ListedUsers(inflight[w].calls[1].reply)

\* C30: the Rides service never sends the database a request with a ride id
\* of 0 or less: GET, DELETE and POST (join) /api/v1/rides/0 are all answered
\* 400 with no call to the Users service or to the database.
C30_NoCallForRideIdZero ==
    /\ \A w \in Workers :
          \A i \in 1..Len(inflight[w].calls) :
              inflight[w].calls[i].action \in {"get_ride", "delete_ride", "join_ride"}
                  => inflight[w].calls[i].ride_id > 0
    /\ \A w \in Workers :
          (/\ inflight[w].req.handler \in {"get_ride", "delete_ride", "join_ride"}
           /\ inflight[w].req.ride_id <= 0)
              => inflight[w].calls = <<>>
    /\ (/\ resp.req.handler \in {"get_ride", "delete_ride", "join_ride"}
        /\ resp.req.ride_id <= 0
        /\ resp.req.method = "POST"
              => /\ resp.req.ctype = "application/json"
                 /\ resp.req.body.kind = "obj"
                 /\ resp.req.body.fields["username"].t = "str")
          => /\ resp.status = 400
             /\ resp.calls = <<>>
====
